---- MODULE Spec2Model ----
(***************************************************************************)
(* The agent control loop of source/agent_runner.py (run_agent) together   *)
(* with the two model backend adapters (source/llm/openai_provider.py,     *)
(* source/llm/claude_provider.py) and the action dispatch of               *)
(* source/actions.py.                                                      *)
(*                                                                         *)
(* run_agent is one long function; the model cuts it at the points where   *)
(* it calls the outside world (the device, the model endpoint), so that    *)
(* one action is one stretch of code between two such points.  `pc` is the *)
(* position in run_agent.  `io` holds the outside calls made by the most   *)
(* recent step, in order, and `request` the message list the most recent   *)
(* create_turn sent to the model endpoint.                                 *)
(***************************************************************************)
EXTENDS Integers, Sequences, FiniteSets, TLC

\* ------------------------------------------------------------------ bounds
\* longest list of output blocks in one model response
MaxItems == 2
\* the turn budget (AGENT_MAX_STEPS / --max-steps) of the runs of Spec
SmallBudget == 2
\* the turn budget of the runs of SpecGuard
GuardBudget == 6
\* longest list of command objects (steps, pre_steps) of a test spec
MaxSteps == 2
\* the turn budget of the runs of SpecTrace and SpecOrder
OneTurn == 1
\* longest list of output blocks in one model response of the runs of SpecOrder
LongItems == 3
\* how often a function called on its own is called on the same argument
Repeats == 2
\* longest text given to input_text
MaxText == 3
\* largest scroll_amount of a scroll payload
MaxAmount == 3
\* longest path of a drag action
MaxPath == 3

\* -------------------------------------------------------- program constants
\* agent_runner.py:424  `if repeat_count >= 10`
RepeatThreshold == 10
\* agent_runner.py:426  device.keyevent("4")
KEYCODE_BACK == 4
\* claude_provider.py:23
_SCROLL_STEP == 100

\* ------------------------------------------------------------------ inputs
\* The texts of a sub-goal (goal, suggestions, negative prompt, success
\* criteria) as one token: two sub-goals with the same token have identical
\* texts.

SeqsUpTo(S, n) == UNION {[1..k -> S] : k \in 0..n}

Providers == {"openai", "claude"}

NoText == ""

VARIABLES
    pc,                 \* position in run_agent
    provider,           \* LLM_PROVIDER, the adapter create_provider returned
    steps_spec,         \* the sub-goals of the test spec
    MAX_AGENT_STEPS,    \* the configured turn budget per sub-goal
    repertoire,         \* the computer actions the model under test asks for
    logcat_proc,        \* "none" | "running" | "terminated" | "killed"
    recorder,           \* "idle" | "recording" | "stopped"
    sub_idx,
    global_turn_index,
    turns_this_sub,
    finished,
    explicit_success,   \* "none" | "true"
    last_sig,
    repeat_count,
    items,              \* turn_result.items not yet iterated over
    executed_any,
    actions_this_turn,
    input_messages,
    substep_results,
    summary,
    exc,                \* the exception in flight to the except clause
    ret,                \* run_agent's return value, "none" before it returns
    reports_written,
    c_system,           \* ClaudeProvider._system
    c_history,          \* ClaudeProvider._history
    c_pending,          \* ClaudeProvider._pending_tool_uses
    c_last_user_text,   \* ClaudeProvider._last_user_text
    request,            \* the messages of the most recent create_turn request
    io,                 \* the outside calls of the most recent step
    ended,              \* <<sub-goal, turn>> of every processed EndTest(success=true) item
    streak,             \* the identical computer actions the model has emitted in a row
    map_result,         \* what the last map_computer_action call returned
    screens,            \* the screen readings the device may give
    skip_install,       \* install_config.skip_install
    apk_spec,           \* spec.get("apk"), "" when absent
    steps,              \* the command objects of the test spec (steps / pre_steps)
    step_i,             \* the index of the command object in execution
    events,             \* the deterministic runner's recorded events
    web_events,         \* run_agent's list of report events
    raw_response,       \* turn_result.raw_response: the blocks of the last response
    traced,             \* which of web_events, raw_response, tool ids the runs follow
    extras,             \* the kinds of block the backend emits besides the three the loop uses
    resp_len,           \* the length of the longest response the backend gives
    call_arg,           \* the argument of a function called on its own
    call_ret            \* what its successive calls returned

vars == <<pc, provider, steps_spec, MAX_AGENT_STEPS, repertoire, logcat_proc, recorder,
          sub_idx, global_turn_index, turns_this_sub, finished,
          explicit_success, last_sig, repeat_count, items, executed_any,
          actions_this_turn, input_messages, substep_results, summary, exc,
          ret, reports_written, c_system, c_history, c_pending,
          c_last_user_text, request, io, ended, streak, map_result, screens,
          skip_install, apk_spec, steps, step_i, events, web_events, raw_response,
          traced, extras, resp_len, call_arg, call_ret>>

\* ---------------------------------------------------------------- actions
\* canonical action objects (the dicts map_computer_action receives).
\* xy is <<x, y>>, or <<>> when x or y is absent or null; xy2 is <<x2, y2>>
\* of a drag and dxy the delta of a scroll (dx/dy or scroll_x/scroll_y),
\* <<>> in the same way.  path is the list of points of a drag, each <<x, y>>,
\* or <<>> for a point without x and y; <<>> when the action carries none.
Action(type, xy, xy2, dxy, key, text) ==
    [type |-> type, xy |-> xy, xy2 |-> xy2, dxy |-> dxy, key |-> key, text |-> text,
     path |-> <<>>]

\* a drag that carries a path
DragWithPath(xy, xy2, path) == [Action("drag", xy, xy2, <<>>, "", "") EXCEPT !.path = path]

NoAction == Action("", <<>>, <<>>, <<>>, "", "")
ClickA == Action("click", <<100, 100>>, <<>>, <<>>, "", "")
KeyEnter == Action("key", <<>>, <<>>, <<>>, "66", "")
DoubleClickA == Action("double_click", <<100, 100>>, <<>>, <<>>, "", "")
DragA == Action("drag", <<100, 100>>, <<300, 100>>, <<>>, "", "")
ScrollA == Action("scroll", <<100, 100>>, <<>>, <<0, 300>>, "", "")
TypeA == Action("type", <<>>, <<>>, <<>>, "", "hello")
WaitA == Action("wait", <<>>, <<>>, <<>>, "", "")
ScreenshotA == Action("screenshot", <<>>, <<>>, <<>>, "", "")

\* actions that lack a required coordinate, delta or key
ClickNoXY == Action("click", <<>>, <<>>, <<>>, "", "")
DoubleClickNoXY == Action("double_click", <<>>, <<>>, <<>>, "", "")
DragNoStart == Action("drag", <<>>, <<300, 100>>, <<>>, "", "")
DragNoEnd == Action("drag", <<100, 100>>, <<>>, <<>>, "", "")
ScrollNoXY == Action("scroll", <<>>, <<>>, <<0, 300>>, "", "")
ScrollNoDelta == Action("scroll", <<100, 100>>, <<>>, <<>>, "", "")
KeyNoKey == Action("key", <<>>, <<>>, <<>>, "", "")

\* actions of a type map_computer_action does not know
HoverA == Action("hover", <<100, 100>>, <<>>, <<>>, "", "")
UntypedA == Action("", <<100, 100>>, <<>>, <<>>, "", "")

\* a payload of Claude's computer tool.  coordinate and start_coordinate are
\* <<x, y>> or <<>> (absent); scroll_amount is <<n>> or <<>> (absent).
Input(action, coordinate, start_coordinate, text, scroll_direction, scroll_amount) ==
    [action |-> action, coordinate |-> coordinate, start_coordinate |-> start_coordinate,
     text |-> text, scroll_direction |-> scroll_direction, scroll_amount |-> scroll_amount]

NoInput == Input("", <<>>, <<>>, "", "", <<>>)

\* `coord or (0, 0)`
OrOrigin(coord) == IF coord = <<>> THEN <<0, 0>> ELSE coord

\* a delta without the sign of the direction
ScrollDelta_unsigned(inp) ==
    LET amount == IF inp.scroll_amount = <<>> THEN 3 ELSE inp.scroll_amount[1]
    IN  IF inp.scroll_direction \in {"right", "left"} THEN <<amount * _SCROLL_STEP, 0>>
        ELSE <<0, amount * _SCROLL_STEP>>

\* lines 53-66: the delta of a scroll
ScrollDelta(inp) ==
    LET direction == IF inp.scroll_direction = "" THEN "down" ELSE inp.scroll_direction
        amount == IF inp.scroll_amount = <<>> THEN 3 ELSE inp.scroll_amount[1]
    IN  IF direction = "down" THEN <<0, amount * _SCROLL_STEP>>
        ELSE IF direction = "up" THEN <<0, 0 - amount * _SCROLL_STEP>>
        ELSE IF direction = "right" THEN <<amount * _SCROLL_STEP, 0>>
        ELSE IF direction = "left" THEN <<0 - amount * _SCROLL_STEP, 0>>
        ELSE <<0, 0>>

_normalize_action(inp) ==
    IF inp.action \in {"left_click", "right_click", "middle_click"}
    THEN Action("click", OrOrigin(inp.coordinate), <<>>, <<>>, "", "")
    ELSE IF inp.action = "double_click"
    THEN Action("double_click", OrOrigin(inp.coordinate), <<>>, <<>>, "", "")
    ELSE IF inp.action = "type"
    THEN Action("type", <<>>, <<>>, <<>>, "", inp.text)
    ELSE IF inp.action = "key"
    THEN Action("key", <<>>, <<>>, <<>>, inp.text, "")
    ELSE IF inp.action = "scroll"
    THEN Action("scroll", OrOrigin(inp.coordinate), <<>>, ScrollDelta(inp), "", "")
    ELSE IF inp.action = "left_click_drag"
    THEN Action("drag",
                IF inp.start_coordinate # <<>> THEN inp.start_coordinate
                ELSE OrOrigin(inp.coordinate),
                OrOrigin(inp.coordinate), <<>>, "", "")
    ELSE IF inp.action = "wait"
    THEN Action("wait", <<>>, <<>>, <<>>, "", "")
    ELSE Action("screenshot", <<>>, <<>>, <<>>, "", "")

\* ---------------------------------------------------- responses and items
\* A response is a list of blocks: text, a computer call, an end_test call,
\* and the kinds the adapters drop: a reasoning or text block whose text is
\* empty ("empty_text"), a call of a tool that is neither the computer nor
\* end_test ("other_tool"), a block of a type the adapter does not know
\* ("unknown").
Block(kind, payload, success) == [kind |-> kind, payload |-> payload, success |-> success]

NoPayload(p) == IF p = "claude" THEN NoInput ELSE NoAction

\* what the computer call of backend p carries for each action of the
\* repertoire: OpenAI's payload is the canonical action, Claude's is its own
ClaudeInput(a) ==
    IF a.type = "click" THEN Input("left_click", a.xy, <<>>, "", "", <<>>)
    ELSE IF a.type = "drag" THEN Input("left_click_drag", a.xy2, a.xy, "", "", <<>>)
    ELSE IF a.type = "scroll" THEN Input("scroll", a.xy, <<>>, "", "", <<>>)
    ELSE IF a.type = "key" THEN Input("key", <<>>, <<>>, a.key, "", <<>>)
    ELSE IF a.type = "type" THEN Input("type", <<>>, <<>>, a.text, "", <<>>)
    ELSE Input(a.type, a.xy, <<>>, "", "", <<>>)

Payloads(p) == IF p = "claude" THEN {ClaudeInput(a) : a \in repertoire} ELSE repertoire

Blocks(p) ==
    {Block("text", NoPayload(p), FALSE)}
    \cup {Block("computer", a, FALSE) : a \in Payloads(p)}
    \cup {Block("end_test", NoPayload(p), s) : s \in BOOLEAN}
    \cup {Block(k, NoPayload(p), FALSE) : k \in extras}

Responses(p) == SeqsUpTo(Blocks(p), resp_len)

Item(type, action, success) == [type |-> type, action |-> action, success |-> success]

\* OpenAIProvider._parse_outputs
OpenAIItem(b) ==
    IF b.kind = "text" THEN Item("reasoning", NoAction, FALSE)
    ELSE IF b.kind = "computer" THEN Item("computer_action", b.payload, FALSE)
    ELSE Item("end_test", NoAction, b.success)

\* ClaudeProvider._parse_response
ClaudeItem(b) ==
    IF b.kind = "text" THEN Item("reasoning", NoAction, FALSE)
    ELSE IF b.kind = "computer" THEN Item("computer_action", _normalize_action(b.payload), FALSE)
    ELSE Item("end_test", NoAction, b.success)

\* the blocks an adapter makes an item of: `if txt`, the known tool names,
\* the known block types
Yields(b) == b.kind \in {"text", "computer", "end_test"}

\* an adapter that puts the end_test items first
RECURSIVE _parse_outputs_end_first(_)
_parse_outputs_end_first(resp) ==
    IF resp = <<>> THEN <<>>
    ELSE IF ~Yields(Head(resp)) THEN _parse_outputs_end_first(Tail(resp))
    ELSE IF Head(resp).kind = "end_test"
    THEN <<OpenAIItem(Head(resp))>> \o _parse_outputs_end_first(Tail(resp))
    ELSE _parse_outputs_end_first(Tail(resp)) \o <<OpenAIItem(Head(resp))>>

RECURSIVE _parse_outputs(_)
_parse_outputs(resp) ==
    IF resp = <<>> THEN <<>>
    ELSE (IF Yields(Head(resp)) THEN <<OpenAIItem(Head(resp))>> ELSE <<>>)
         \o _parse_outputs(Tail(resp))

RECURSIVE _parse_response(_)
_parse_response(resp) ==
    IF resp = <<>> THEN <<>>
    ELSE (IF Yields(Head(resp)) THEN <<ClaudeItem(Head(resp))>> ELSE <<>>)
         \o _parse_response(Tail(resp))

\* --------------------------------------------------------------- messages
\* fresh: the message carries a screenshot captured after every device
\* action executed so far.  sub: the sub-goal the loop built the message in.
\* ids: the ids of the tool_use blocks of an assistant message, of the
\* tool_result blocks of a user message (<<>> in the runs that do not follow
\* them).
Msg(role, kind, text, note, fresh, sub) ==
    [role |-> role, kind |-> kind, text |-> text, note |-> note, fresh |-> fresh, sub |-> sub,
     ids |-> <<>>]

SYSTEM_PROMPT == "SYSTEM_PROMPT"

format_system_message(text) == Msg("system", "system", text, "", FALSE, 0)

\* text_parts = [base_user_context] or [base_user_context, note]; the
\* screenshot is the one just captured
format_user_message(context, note, sub) == Msg("user", "context", context, note, TRUE, sub)

base_user_context(sub) == steps_spec[sub]

\* a device action was executed: no screenshot taken so far shows the screen
RECURSIVE Stale(_)
Stale(msgs) ==
    IF msgs = <<>> THEN <<>>
    ELSE <<[Head(msgs) EXCEPT !.fresh = FALSE]>> \o Stale(Tail(msgs))

\* ------------------------------------------------------------ the screen
\* what the device answers in one turn: the physical size (wm size), the
\* rotation in degrees (dumpsys input), and the display size read from
\* dumpsys display, <<>> when none is found
Screen(phy, rotation, display) == [phy |-> phy, rotation |-> rotation, display |-> display]

Portrait == Screen(<<1080, 2400>>, 0, <<>>)

\* a canvas that is turned for a rotation of 90 only
Canvas_quarter(scr) ==
    IF scr.rotation = 90 THEN <<scr.phy[2], scr.phy[1]>> ELSE scr.phy

\* types.py lines 43-53: ScreenInfo.canvas_width, ScreenInfo.canvas_height
canvas_width(si) == IF si.rotation \in {90, 270} THEN si.phy[2] ELSE si.phy[1]
canvas_height(si) == IF si.rotation \in {90, 270} THEN si.phy[1] ELSE si.phy[2]

\* lines 338-343 and 372-377: dev_w, dev_h
Canvas(scr) ==
    IF scr.rotation \in {90, 270} THEN <<scr.phy[2], scr.phy[1]>> ELSE scr.phy

\* lines 380-385: display_width, display_height of the create_turn call
DisplayArgs(scr) == IF scr.display # <<>> THEN scr.display ELSE Canvas(scr)

\* ------------------------------------------------------------ outside calls
Call(op, xy, key, ok) == [op |-> op, xy |-> xy, key |-> key, ok |-> ok]

DeviceActionOps == {"tap", "swipe", "input_text", "keyevent"}
IsDeviceAction(c) == c.op \in DeviceActionOps

\* a dispatch that checks no field: a click is a tap whatever it carries
map_computer_action_unchecked(action) ==
    IF action.type \in {"click", "double_click"}
    THEN [calls |-> <<Call("tap", action.xy, "", TRUE)>>, result |-> "success"]
    ELSE IF action.type = "key"
    THEN [calls |-> <<Call("keyevent", <<>>, action.key, TRUE)>>, result |-> "success"]
    ELSE [calls |-> <<>>, result |-> "success"]

\* lines 73-87: the start and the end of a drag: the action's own when x2
\* and y2 are given, else those of a path of two points or more (a first
\* point without x and y leaves the action's x and y)
DragEnds(action) ==
    IF action.xy2 = <<>> /\ Len(action.path) >= 2
    THEN [xy |-> IF action.path[1] = <<>> THEN action.xy ELSE action.path[1],
          xy2 |-> action.path[Len(action.path)]]
    ELSE [xy |-> action.xy, xy2 |-> action.xy2]

\* a dispatch that takes the path of a drag whatever else the drag carries
map_computer_action_path_first(action) ==
    IF action.type = "drag" /\ Len(action.path) >= 2
    THEN [calls |-> <<Call("swipe", action.path[1] \o action.path[Len(action.path)], "", TRUE)>>,
          result |-> "success"]
    ELSE [calls |-> <<>>, result |-> "error: missing drag coordinates"]

\* map_computer_action: the device calls it makes, in order, and its result
\* ("none" for None)
map_computer_action(action) ==
    IF action.type = "click"
    THEN IF action.xy = <<>>
         THEN [calls |-> <<>>, result |-> "error: missing coordinates"]
         ELSE [calls |-> <<Call("tap", action.xy, "", TRUE)>>, result |-> "success"]
    ELSE IF action.type = "double_click"
    THEN IF action.xy = <<>>
         THEN [calls |-> <<>>, result |-> "error: missing coordinates"]
         ELSE [calls |-> <<Call("tap", action.xy, "", TRUE), Call("tap", action.xy, "", TRUE)>>,
               result |-> "success"]
    ELSE IF action.type = "drag"
    THEN IF DragEnds(action).xy = <<>> \/ DragEnds(action).xy2 = <<>>
         THEN [calls |-> <<>>, result |-> "error: missing drag coordinates"]
         ELSE [calls |-> <<Call("swipe", DragEnds(action).xy \o DragEnds(action).xy2,
                                "", TRUE)>>,
               result |-> "success"]
    ELSE IF action.type = "scroll"
    THEN IF action.xy = <<>> \/ action.dxy = <<>>
         THEN [calls |-> <<>>, result |-> "error: missing scroll parameters"]
         ELSE [calls |-> <<Call("swipe",
                                action.xy \o <<action.xy[1] + action.dxy[1],
                                               action.xy[2] + action.dxy[2]>>,
                                "", TRUE)>>,
               result |-> "success"]
    ELSE IF action.type = "type"
    THEN [calls |-> <<Call("input_text", <<>>, action.text, TRUE)>>, result |-> "success"]
    ELSE IF action.type = "key"
    THEN IF action.key = ""
         THEN [calls |-> <<>>, result |-> "error: missing key"]
         ELSE [calls |-> <<Call("keyevent", <<>>, action.key, TRUE)>>, result |-> "success"]
    ELSE IF action.type = "wait"
    THEN [calls |-> <<Call("wait", <<>>, "", TRUE)>>, result |-> "success"]
    ELSE IF action.type = "screenshot"
    THEN [calls |-> <<>>, result |-> "success"]
    ELSE [calls |-> <<>>, result |-> "none"]

\* the calls made when call number f raises (f = 0: none raises)
Performed(calls, f) ==
    IF f = 0 THEN calls
    ELSE SubSeq(calls, 1, f - 1) \o <<[calls[f] EXCEPT !.ok = FALSE]>>

\* ------------------------------------------------------- the Claude adapter
\* _extract_tool_use_blocks: (id, name) of every tool_use block, in order;
\* the endpoint's ids are unique: here the turn and the block's position
RECURSIVE ToolUsesFrom(_, _, _)
ToolUsesFrom(resp, i, turn) ==
    IF i > Len(resp) THEN <<>>
    ELSE (IF resp[i].kind \in {"computer", "end_test", "other_tool"}
          THEN <<[id |-> <<turn, i>>, name |-> resp[i].kind]>>
          ELSE <<>>)
         \o ToolUsesFrom(resp, i + 1, turn)

\* an extraction that keeps the calls of the computer tool only
RECURSIVE _extract_tool_use_blocks_computer(_, _)
_extract_tool_use_blocks_computer(resp, turn) ==
    IF resp = <<>> THEN <<>>
    ELSE _extract_tool_use_blocks_computer(SubSeq(resp, 1, Len(resp) - 1), turn)
         \o (IF resp[Len(resp)].kind = "computer"
             THEN <<[id |-> <<turn, Len(resp)>>, name |-> "computer"]>>
             ELSE <<>>)

_extract_tool_use_blocks(resp, turn) == ToolUsesFrom(resp, 1, turn)

\* the ids of a list of tool uses, in the runs that follow them
IdsOf(tool_uses) ==
    IF "tool_ids" \in traced THEN [i \in DOMAIN tool_uses |-> tool_uses[i].id] ELSE <<>>

\* _response_to_params: the assistant message made of a response; its
\* tool_use blocks are the response's, whatever their name
_response_to_params(resp, turn, sub) ==
    [Msg("assistant", "response", "", "", FALSE, sub)
        EXCEPT !.ids = IdsOf(ToolUsesFrom(resp, 1, turn))]

\* a tool result that never carries the screenshot
_make_tool_result_text(tu, screenshot_fresh) == FALSE

\* _make_tool_result: the screenshot only for the computer tool, "OK" otherwise
_make_tool_result(tu, screenshot_fresh) == tu.name = "computer" /\ screenshot_fresh

\* the user message of tool results for the pending tool uses (lines 240-248)
ToolResultsMsg(pending, user_msg) ==
    [Msg("user", "tool_results", "", "",
         \E i \in DOMAIN pending : _make_tool_result(pending[i], user_msg.fresh),
         user_msg.sub)
        EXCEPT !.ids = IdsOf(pending)]

\* lines 223-232: first turn, system prompt changed, or goal text changed
ContextReset(system_text, user_text) ==
    \/ c_system = NoText
    \/ system_text # c_system
    \/ (c_last_user_text # NoText /\ user_text # NoText /\ user_text # c_last_user_text)

\* lines 209-251: the history the request is made of
ClaudeRequest(msgs) ==
    LET system_text == msgs[1].text
        user_msg == msgs[2]
        reset == ContextReset(system_text, user_msg.text)
        hist0 == IF reset THEN <<>> ELSE c_history
        pend0 == IF reset THEN <<>> ELSE c_pending
    IN  IF pend0 # <<>> THEN Append(hist0, ToolResultsMsg(pend0, user_msg))
        ELSE Append(hist0, user_msg)

\* ClaudeProvider.create_turn; resp = <<>> with ok = FALSE when the endpoint raises
ClaudeCreateTurn(msgs, resp, ok) ==
    /\ request' = ClaudeRequest(msgs)
    /\ c_system' = IF ContextReset(msgs[1].text, msgs[2].text) THEN msgs[1].text ELSE c_system
    /\ c_last_user_text' = IF msgs[2].text # NoText THEN msgs[2].text ELSE c_last_user_text
    /\ c_history' = IF ok
                    THEN Append(ClaudeRequest(msgs),
                                _response_to_params(resp, global_turn_index + 1, msgs[2].sub))
                    ELSE ClaudeRequest(msgs)
    /\ c_pending' = IF ok THEN _extract_tool_use_blocks(resp, global_turn_index + 1) ELSE <<>>

\* OpenAIProvider.create_turn: the message list is sent as it is
OpenAICreateTurn(msgs) ==
    /\ request' = msgs
    /\ UNCHANGED <<c_system, c_history, c_pending, c_last_user_text>>

cvars == <<c_system, c_history, c_pending, c_last_user_text>>

\* ------------------------------------------------- deterministic commands
\* a command object: cmd ("" when absent) and, for a tap, <<x, y>>
Cmd(cmd, xy) == [cmd |-> cmd, xy |-> xy]

TapCmd == Cmd("tap", <<540, 960>>)
TapCmd2 == Cmd("tap", <<10, 20>>)
WaitCmd == Cmd("wait", <<>>)
BackCmd == Cmd("back", <<>>)
FlyCmd == Cmd("fly", <<>>)
Commands == {TapCmd, TapCmd2, WaitCmd, BackCmd, FlyCmd}

\* a dispatch that taps at (y, x)
execute_command_swapped(step) ==
    IF step.cmd = "tap"
    THEN [calls |-> <<Call("tap", <<step.xy[2], step.xy[1]>>, "", TRUE)>>, error |-> ""]
    ELSE IF step.cmd = "wait" THEN [calls |-> <<Call("wait", <<>>, "", TRUE)>>, error |-> ""]
    ELSE IF step.cmd = "back"
    THEN [calls |-> <<Call("keyevent", <<>>, ToString(KEYCODE_BACK), TRUE)>>, error |-> ""]
    ELSE [calls |-> <<>>, error |-> "Unknown command"]

\* execute_command: the device calls it makes and the error it raises itself
\* ("" when none).  Of the ten commands the four the inputs use are spelled
\* out; a tap without x or y is a KeyError.
execute_command(step) ==
    IF step.cmd = "" THEN [calls |-> <<>>, error |-> ""]
    ELSE IF step.cmd = "wait" THEN [calls |-> <<Call("wait", <<>>, "", TRUE)>>, error |-> ""]
    ELSE IF step.cmd = "tap"
    THEN IF step.xy = <<>> THEN [calls |-> <<>>, error |-> "KeyError"]
         ELSE [calls |-> <<Call("tap", step.xy, "", TRUE)>>, error |-> ""]
    ELSE IF step.cmd = "back"
    THEN [calls |-> <<Call("keyevent", <<>>, ToString(KEYCODE_BACK), TRUE)>>, error |-> ""]
    ELSE IF step.cmd \in {"swipe", "input_text", "keyevent", "home", "screenshot",
                          "launch", "stop"}
    THEN [calls |-> <<Call(step.cmd, <<>>, "", TRUE)>>, error |-> ""]
    ELSE [calls |-> <<>>, error |-> "Unknown command"]

\* ------------------------------------------------------------ prepare_app
\* a prepare_app that launches an app it did not find
prepare_app_lenient(skip, installed, stopped) ==
    <<Call("is_package_installed", <<>>, "", installed)>>
    \o (IF skip THEN <<>>
        ELSE (IF installed THEN <<Call("uninstall", <<>>, "", TRUE)>> ELSE <<>>)
             \o <<Call("install_apk", <<>>, "", TRUE)>>)
    \o <<Call("stop_app", <<>>, "", stopped), Call("launch_app", <<>>, "", TRUE)>>

\* prepare_app: the device calls it makes when none of them raises.
\* installed: what is_package_installed answers; stopped: whether the
\* force-stop worked (its failure is swallowed).  With skip_install and the
\* package absent it raises after the first call.
prepare_app(skip, installed, stopped) ==
    <<Call("is_package_installed", <<>>, "", installed)>>
    \o (IF skip
        THEN <<>>
        ELSE (IF installed THEN <<Call("uninstall", <<>>, "", TRUE)>> ELSE <<>>)
             \o <<Call("install_apk", <<>>, "", TRUE)>>)
    \o (IF skip /\ ~installed
        THEN <<>>
        ELSE <<Call("stop_app", <<>>, "", stopped), Call("launch_app", <<>>, "", TRUE)>>)

\* lines 38-39: the RuntimeError of prepare_app itself
PackageMissing(skip, installed) == skip /\ ~installed

\* the calls of prepare_app that raise when the adb command fails
PrepareRaisable(calls) == {i \in DOMAIN calls : calls[i].op \in {"install_apk", "launch_app"}}

\* ------------------------------------------------------------ the agent loop
\* a turn index that counts the turns of the sub-goal
NextTurnIndex_per_sub(index, turns) == turns + 1

\* line 370: global_turn_index += 1
NextTurnIndex(index, turns) == index + 1

\* a loop that only an end_test leaves
LoopContinues_unbounded == ~finished

\* a loop that allows one turn more than the budget
LoopContinues_inclusive == turns_this_sub <= MAX_AGENT_STEPS /\ ~finished

\* line 368: the while condition
LoopContinues == turns_this_sub < MAX_AGENT_STEPS /\ ~finished

\* an end_test that ends the sub-goal whatever its flag
EndsSubGoal_any(item) == TRUE

\* line 457: `if not output_item.success: continue`
EndsSubGoal(item) == item.success

\* a guard that fires two actions early
GuardFires_early(rc) == rc >= RepeatThreshold - 2

\* line 424
GuardFires(rc) == rc >= RepeatThreshold

\* a counter that only counts the actions that reach the device
RepeatCount_effective(sig, last, count) ==
    IF sig = last /\ map_computer_action(sig).calls # <<>> THEN count + 1 ELSE 0

\* lines 418-422: the counter for an action of signature sig
RepeatCount(sig, last, count) == IF sig = last THEN count + 1 ELSE 0

\* line 508
SubOk == explicit_success = "true"

\* a loop that goes on after a failed sub-goal
AbortsRun_never(sub_ok) == FALSE

\* lines 518-520
AbortsRun(sub_ok) == ~sub_ok

\* a summary that one passed sub-goal is enough for
SummaryOk_any(results) ==
    IF results # <<>> THEN \E i \in DOMAIN results : results[i].ok ELSE FALSE

\* line 522
SummaryOk(results) ==
    IF results # <<>> THEN \A i \in DOMAIN results : results[i].ok ELSE FALSE

\* an item loop that `break` does not leave
ItemsLeft_nobreak == items # <<>>

\* lines 406 and 485: the for loop over the turn's items, left by `break`
ItemsLeft == items # <<>> /\ ~finished

\* an except clause that records no message
ExceptSummary_silent(s, e) == [s EXCEPT !.ok = FALSE]

\* lines 527-528
ExceptSummary(s, e) == [s EXCEPT !.errors = Append(@, e), !.ok = FALSE]

\* a loop that marks every action
IsMarked_all(action) == TRUE

\* lines 430: the click carries a marker screenshot and a trace event
IsMarked(action) == action.type \in {"click", "double_click"} /\ action.xy # <<>>

\* no function is called on its own
NoCall == call_arg = <<>> /\ call_ret = <<>>

\* the state of everything run_agent's try statement works on; lp, rec and
\* sub are the log capture, the recorder and the sub-goal index
LocalsFrom(budget, provs, specs, acts, scrs, lp, rec, sub) ==
    /\ provider \in provs
    /\ steps_spec \in specs
    /\ MAX_AGENT_STEPS = budget
    /\ repertoire = acts
    /\ logcat_proc = lp
    /\ recorder = rec
    /\ sub_idx = sub
    /\ global_turn_index = 0
    /\ turns_this_sub = 0
    /\ finished = FALSE
    /\ explicit_success = "none"
    /\ last_sig = NoAction
    /\ repeat_count = 0
    /\ items = <<>>
    /\ executed_any = FALSE
    /\ actions_this_turn = 0
    /\ input_messages = <<>>
    /\ substep_results = <<>>
    /\ summary = [ok |-> FALSE, errors |-> <<>>, executed |-> 0, substeps |-> <<>>]
    /\ exc = ""
    /\ ret = "none"
    /\ reports_written = FALSE
    /\ c_system = NoText
    /\ c_history = <<>>
    /\ c_pending = <<>>
    /\ c_last_user_text = NoText
    /\ request = <<>>
    /\ io = <<>>
    /\ ended = {}
    /\ streak = 0
    /\ map_result = "unset"
    /\ screens = scrs
    /\ step_i = 0
    /\ events = <<>>
    /\ web_events = <<>>
    /\ raw_response = <<>>

\* the state of everything run_agent's try statement works on, before it
Locals(budget, provs, specs, acts, scrs) ==
    LocalsFrom(budget, provs, specs, acts, scrs, "none", "idle", 0)

\* run_agent at line 275: an apk was given and installed, there were no
\* pre-steps.  kinds: the kinds of block the backend emits besides text,
\* computer calls and end_test calls; len: the longest response; tr: which
\* of web_events, raw_response and the ids of Claude's tool calls are
\* followed (run_agent only writes the first two out, and the ids only pair
\* each tool_result with its tool_use).
InitRun(budget, provs, specs, acts, scrs, kinds, len, tr) ==
    /\ pc = "logcat"
    /\ skip_install = FALSE
    /\ apk_spec = "app.apk"
    /\ steps = <<>>
    /\ extras = kinds
    /\ resp_len = len
    /\ traced = tr
    /\ NoCall
    /\ Locals(budget, provs, specs, acts, scrs)

\* the runs whose backend emits no other kind of block and at most MaxItems
\* blocks a turn
InitLoop(budget, provs, specs, acts, scrs) ==
    InitRun(budget, provs, specs, acts, scrs, {}, MaxItems, {})

\* the runs on a device in portrait whose display size cannot be read
InitWith(budget, provs, specs, acts) == InitLoop(budget, provs, specs, acts, {Portrait})

Init == InitWith(SmallBudget, Providers, {<<"g1">>, <<"g1", "g2">>}, {ClickA})

loopvars == <<sub_idx, global_turn_index, turns_this_sub, finished, explicit_success,
              last_sig, repeat_count, items, executed_any, actions_this_turn,
              input_messages, substep_results, ended, streak, map_result, web_events,
              raw_response>>
callvars == <<call_arg, call_ret>>
inputs == <<provider, steps_spec, MAX_AGENT_STEPS, repertoire, screens, skip_install,
           apk_spec, steps, traced, extras, resp_len>>
config == <<inputs, callvars>>
stepvars == <<step_i, events>>

\* lines 275-290: start the device log capture
StartLogcat ==
    /\ pc = "logcat"
    /\ \E ok \in BOOLEAN :
        /\ logcat_proc' = IF ok THEN "running" ELSE "none"
        /\ io' = <<Call("popen_logcat", <<>>, "", ok)>>
    /\ pc' = "provider"
    /\ UNCHANGED <<config, stepvars, recorder, loopvars, summary, exc, ret, reports_written, cvars, request>>

\* line 292: create_provider; when it raises the exception leaves run_agent
CreateProvider ==
    /\ pc = "provider"
    /\ \E ok \in BOOLEAN :
        /\ io' = <<Call("create_provider", <<>>, "", ok)>>
        /\ pc' = IF ok THEN "record" ELSE "done"
        /\ ret' = IF ok THEN ret ELSE "raised"
    /\ UNCHANGED <<config, stepvars, logcat_proc, recorder, loopvars, summary, exc, reports_written, cvars, request>>

\* lines 294-321: recorder.start() never raises
StartRecording ==
    /\ pc = "record"
    /\ \E ok \in BOOLEAN :
        /\ recorder' = IF ok THEN "recording" ELSE "idle"
        /\ io' = <<Call("popen_screenrecord", <<>>, "", ok)>>
    /\ global_turn_index' = 0
    /\ sub_idx' = 1
    /\ pc' = "sub_begin"
    /\ UNCHANGED <<config, stepvars, logcat_proc, turns_this_sub, finished, explicit_success,
                   last_sig, repeat_count, items, executed_any, actions_this_turn,
                   input_messages, substep_results, ended, streak, map_result, web_events,
                   raw_response, summary, exc, ret, reports_written, cvars, request>>

\* lines 323-366: the start of a sub-goal
BeginSubGoal ==
    /\ pc = "sub_begin"
    /\ \E ok \in BOOLEAN :
        /\ io' = <<Call("screenshot", <<>>, "", ok)>>
        /\ IF ok
           THEN /\ input_messages' = <<format_system_message(SYSTEM_PROMPT),
                                       format_user_message(base_user_context(sub_idx), "", sub_idx)>>
                /\ finished' = FALSE
                /\ explicit_success' = "none"
                /\ last_sig' = NoAction
                /\ repeat_count' = 0
                /\ turns_this_sub' = 0
                /\ streak' = 0
                /\ pc' = "turn"
                /\ exc' = exc
           ELSE /\ pc' = "except"
                /\ exc' = "screenshot failed"
                /\ UNCHANGED <<input_messages, finished, explicit_success, last_sig,
                               repeat_count, turns_this_sub, streak>>
    /\ UNCHANGED <<config, stepvars, logcat_proc, recorder, sub_idx, global_turn_index, items,
                   executed_any, actions_this_turn, substep_results, ended, map_result,
                   web_events, raw_response, summary, ret, reports_written, cvars, request>>

\* provider.create_turn (line 381)
ProviderCreateTurn(resp, ok) ==
    IF provider = "claude"
    THEN ClaudeCreateTurn(input_messages, resp, ok)
    ELSE OpenAICreateTurn(input_messages)

ParseItems(resp) == IF provider = "claude" THEN _parse_response(resp) ELSE _parse_outputs(resp)

\* lines 372-385: the screen is read, then the model is called with the
\* display size
TurnCalls(scr, ok) ==
    <<Call("wm_size", scr.phy, "", TRUE),
      Call("dumpsys_input", <<>>, ToString(scr.rotation), TRUE),
      Call("dumpsys_display", scr.display, "", TRUE),
      Call("create_turn", DisplayArgs(scr), "", ok)>>

\* lines 368-404: one more turn: the counters, the model call, the per-turn locals
CreateTurn ==
    /\ pc = "turn"
    /\ LoopContinues
    /\ turns_this_sub' = turns_this_sub + 1
    /\ global_turn_index' = NextTurnIndex(global_turn_index, turns_this_sub)
    /\ \/ \E resp \in Responses(provider), scr \in screens, written \in BOOLEAN :
            /\ ProviderCreateTurn(resp, TRUE)
            /\ io' = TurnCalls(scr, TRUE)
                     \o <<Call("write_raw_response", <<>>, "", written)>>
            /\ items' = ParseItems(resp)
            /\ raw_response' = IF "raw_response" \in traced THEN resp ELSE raw_response
            /\ executed_any' = FALSE
            /\ actions_this_turn' = 0
            /\ pc' = "items"
            /\ exc' = exc
       \/ \E scr \in screens :
            /\ ProviderCreateTurn(<<>>, FALSE)
            /\ io' = TurnCalls(scr, FALSE)
            /\ pc' = "except"
            /\ exc' = "create_turn failed"
            /\ UNCHANGED <<items, executed_any, actions_this_turn, raw_response>>
    /\ UNCHANGED <<config, stepvars, logcat_proc, recorder, sub_idx, finished, explicit_success,
                   last_sig, repeat_count, input_messages, substep_results, ended,
                   streak, map_result, web_events, summary, ret, reports_written>>

\* a loop in which the marker screenshot can raise as well
Raisable_marker(calls) ==
    {i \in DOMAIN calls : calls[i].op \in DeviceActionOps \cup {"screenshot_with_marker"}}

\* the device calls among `calls` (the ones that can raise), by position
Raisable(calls) == {i \in DOMAIN calls : IsDeviceAction(calls[i])}

\* a guard that sends BACK and executes the action all the same
ActionCalls_both(action, guard, marked) ==
    <<Call("log", <<>>, "Action", TRUE)>> \o
    (IF guard
     THEN <<Call("log", <<>>, "Detected repeated action", TRUE),
            Call("keyevent", <<>>, ToString(KEYCODE_BACK), TRUE), Call("wait", <<>>, "", TRUE)>>
     ELSE <<>>)
    \o map_computer_action(action).calls
    \o <<Call("wait", <<>>, "", TRUE)>>

\* lines 414-454: the calls a computer action item leads to when none raises
ActionCalls(action, guard, marked) ==
    <<Call("log", <<>>, "Action", TRUE)>> \o
    IF guard
    THEN <<Call("log", <<>>, "Detected repeated action", TRUE),
           Call("keyevent", <<>>, ToString(KEYCODE_BACK), TRUE), Call("wait", <<>>, "", TRUE)>>
    ELSE (IF IsMarked(action)
          THEN <<Call("screenshot_with_marker", action.xy, "", marked),
                 Call("event", action.xy, action.type, TRUE)>>
          ELSE <<>>)
         \o map_computer_action(action).calls
         \o <<Call("wait", <<>>, "", TRUE)>>

\* lines 434 and 466: the file name of an event's screenshot,
\* step_{global_turn_index:03d}_preclick_marked.png or
\* step_{global_turn_index:03d}_end_test.png
ImageName(index, cmd) ==
    <<"step", index, IF cmd = "end_test" THEN "end_test" ELSE "preclick_marked">>

\* lines 437-448 and 471-483: an entry of web_events
WebEvent(index, substep, cmd, xy) ==
    [index |-> index, substep |-> substep, cmd |-> cmd, xy |-> xy,
     image |-> ImageName(index, cmd)]

\* lines 407-412: a reasoning item
ReasoningItem ==
    /\ Head(items).type = "reasoning"
    /\ io' = <<Call("log", <<>>, "Reasoning", TRUE)>>
    /\ items' = Tail(items)
    /\ UNCHANGED <<pc, exc, finished, explicit_success, last_sig, repeat_count,
                   executed_any, actions_this_turn, input_messages, ended, streak,
                   map_result, web_events, cvars>>

\* lines 414-454: a computer action item
ComputerActionItem ==
    /\ Head(items).type = "computer_action"
    /\ LET action == Head(items).action
           sig == action
           rc == RepeatCount(sig, last_sig, repeat_count)
           guard == GuardFires(rc)
       IN  \E marked \in BOOLEAN :
           \E f \in {0} \cup Raisable(ActionCalls(action, guard, marked)) :
            LET calls == ActionCalls(action, guard, marked)
                done == Performed(calls, f)
                acted == \E i \in DOMAIN done : IsDeviceAction(done[i])
            IN  /\ io' = done
                /\ last_sig' = sig
                /\ streak' = IF streak > 0 /\ sig = last_sig THEN streak + 1 ELSE 1
                /\ web_events' = IF "web_events" \in traced /\ ~guard /\ IsMarked(action)
                                  THEN Append(web_events,
                                              WebEvent(global_turn_index, sub_idx,
                                                       action.type, action.xy))
                                  ELSE web_events
                /\ input_messages' = IF acted THEN Stale(input_messages) ELSE input_messages
                /\ c_history' = IF acted THEN Stale(c_history) ELSE c_history
                /\ IF f = 0
                   THEN /\ repeat_count' = IF guard THEN 0 ELSE rc
                        /\ executed_any' = IF guard THEN executed_any ELSE TRUE
                        /\ actions_this_turn' = IF guard THEN actions_this_turn
                                                ELSE actions_this_turn + 1
                        /\ map_result' = IF guard THEN map_result
                                         ELSE map_computer_action(action).result
                        /\ items' = Tail(items)
                        /\ UNCHANGED <<pc, exc>>
                   ELSE /\ repeat_count' = rc
                        /\ pc' = "except"
                        /\ exc' = "device command failed"
                        /\ UNCHANGED <<executed_any, actions_this_turn, items, map_result>>
    /\ UNCHANGED <<finished, explicit_success, ended, c_system, c_pending, c_last_user_text>>

\* lines 456-485: an end_test item
EndTestItem ==
    /\ Head(items).type = "end_test"
    /\ IF ~EndsSubGoal(Head(items))
       THEN /\ io' = <<Call("log", <<>>, "Ignored end_test", TRUE)>>
            /\ UNCHANGED <<finished, explicit_success, ended, web_events>>
       ELSE /\ finished' = TRUE
            /\ explicit_success' = "true"
            /\ web_events' = IF "web_events" \in traced
                              THEN Append(web_events,
                                          WebEvent(global_turn_index, sub_idx, "end_test", <<>>))
                              ELSE web_events
            /\ ended' = ended \cup {<<sub_idx, turns_this_sub>>}
            /\ \E ok \in BOOLEAN :
                io' = <<Call("screenshot", <<>>, "end_test", ok),
                        Call("event", <<>>, "end_test", TRUE),
                        Call("log", <<>>, "end_test tool called", TRUE)>>
    /\ items' = Tail(items)
    /\ UNCHANGED <<pc, exc, last_sig, repeat_count, executed_any, actions_this_turn,
                   input_messages, streak, map_result, cvars>>

\* lines 406-485: the next item of the turn; after `break` none is taken
ProcessItem ==
    /\ pc = "items"
    /\ ItemsLeft
    /\ \/ ReasoningItem
       \/ ComputerActionItem
       \/ EndTestItem
    /\ UNCHANGED <<config, stepvars, logcat_proc, recorder, sub_idx, global_turn_index,
                   turns_this_sub, substep_results, raw_response, summary, ret,
                   reports_written, request>>

\* lines 494-501: the next turn's user message, with a screenshot just taken
NextUserMessage ==
    format_user_message(base_user_context(sub_idx),
                        IF executed_any THEN "State updated after actions"
                        ELSE "No actions produced", sub_idx)

\* a message list that keeps the earlier user messages
NextMessages_appending(msgs, user_msg) == Append(msgs, user_msg)

\* lines 492-502: the next turn's message list
NextMessages(msgs, user_msg) == <<msgs[1], user_msg>>

\* lines 487-506: the end of a turn
EndTurn ==
    /\ pc = "items"
    /\ ~ItemsLeft
    /\ IF finished
       THEN /\ io' = <<>>
            /\ pc' = "turn"
            /\ UNCHANGED <<input_messages, exc>>
       ELSE \E ok \in BOOLEAN :
            /\ io' = <<Call("screenshot", <<>>, "", ok)>>
            /\ IF ok
               THEN /\ input_messages' = NextMessages(input_messages, NextUserMessage)
                    /\ pc' = "turn"
                    /\ exc' = exc
               ELSE /\ pc' = "except"
                    /\ exc' = "screenshot failed"
                    /\ UNCHANGED input_messages
    /\ UNCHANGED <<config, stepvars, logcat_proc, recorder, sub_idx, global_turn_index,
                   turns_this_sub, finished, explicit_success, last_sig, repeat_count,
                   items, executed_any, actions_this_turn, substep_results, ended, streak,
                   map_result, web_events, raw_response,
                   summary, ret, reports_written, cvars, request>>

\* lines 508-520: the sub-goal's result; the next sub-goal, or the end of the loop
RecordSubGoal ==
    /\ pc = "turn"
    /\ ~LoopContinues
    /\ io' = <<>>
    /\ substep_results' = Append(substep_results,
                                 [index |-> sub_idx, ok |-> SubOk, turns |-> turns_this_sub])
    /\ IF AbortsRun(SubOk) \/ sub_idx = Len(steps_spec)
       THEN pc' = "loop_end" /\ sub_idx' = sub_idx
       ELSE pc' = "sub_begin" /\ sub_idx' = sub_idx + 1
    /\ UNCHANGED <<config, stepvars, logcat_proc, recorder, global_turn_index, turns_this_sub,
                   finished, explicit_success, last_sig, repeat_count, items,
                   executed_any, actions_this_turn, input_messages, ended, streak, map_result,
                   web_events, raw_response, summary,
                   exc, ret, reports_written, cvars, request>>

\* lines 522-524
FinishLoop ==
    /\ pc = "loop_end"
    /\ io' = <<>>
    /\ summary' = [summary EXCEPT !.ok = SummaryOk(substep_results),
                                  !.executed = global_turn_index,
                                  !.substeps = substep_results]
    /\ pc' = "finally"
    /\ UNCHANGED <<config, stepvars, logcat_proc, recorder, loopvars, exc, ret, reports_written,
                   cvars, request>>

\* lines 525-529: the except clause of the loop
HandleException ==
    /\ pc = "except"
    /\ io' = <<>>
    /\ summary' = ExceptSummary(summary, exc)
    /\ pc' = "finally"
    /\ UNCHANGED <<config, stepvars, logcat_proc, recorder, loopvars, exc, ret, reports_written,
                   cvars, request>>

\* app_lifecycle.py line 19: install_config.uninstall_after of a test spec
\* that has neither uninstall_after nor skip_stall
UninstallAfter == ~skip_install

\* teardown_app: the uninstall, whose failure is swallowed
teardown_app(uninstall, ok) ==
    IF uninstall THEN <<Call("uninstall", <<>>, "", ok)>> ELSE <<>>

\* lines 530-547: the finally clause: the log capture is terminated, and
\* killed when it has not exited after 5 s; the app is torn down; the
\* recorder is stopped
Finally ==
    /\ pc = "finally"
    /\ \E graceful \in BOOLEAN :
        logcat_proc' = IF logcat_proc = "running"
                       THEN (IF graceful THEN "terminated" ELSE "killed")
                       ELSE logcat_proc
    /\ recorder' = IF recorder = "recording" THEN "stopped" ELSE recorder
    /\ \E ok \in BOOLEAN :
        io' = teardown_app(UninstallAfter, ok) \o <<Call("stop_and_pull", <<>>, "", TRUE)>>
    /\ pc' = "reports"
    /\ UNCHANGED <<config, stepvars, loopvars, summary, exc, ret, reports_written, cvars, request>>

\* lines 549-559: the reports and the return value
WriteReports ==
    /\ pc = "reports"
    /\ io' = <<>>
    /\ reports_written' = TRUE
    /\ ret' = IF summary.ok THEN "0" ELSE "1"
    /\ pc' = "done"
    /\ UNCHANGED <<config, stepvars, logcat_proc, recorder, loopvars, summary, exc, cvars, request>>

Next ==
    \/ StartLogcat
    \/ CreateProvider
    \/ StartRecording
    \/ BeginSubGoal
    \/ CreateTurn
    \/ ProcessItem
    \/ EndTurn
    \/ RecordSubGoal
    \/ FinishLoop
    \/ HandleException
    \/ Finally
    \/ WriteReports

Spec == Init /\ [][Next]_vars

\* the runs with the long turn budget, in which a streak of identical
\* actions can reach the threshold
InitGuard == InitWith(GuardBudget, {"openai"}, {<<"g1">>}, {ClickA, KeyEnter})

SpecGuard == InitGuard /\ [][Next]_vars

\* the runs of the Claude backend over two sub-goals of identical text
InitSame == InitWith(SmallBudget, {"claude"}, {<<"g1", "g1">>}, {ClickA})

SpecSame == InitSame /\ [][Next]_vars

\* ------------------------------------------- run_agent before the try
runvars == <<logcat_proc, recorder, loopvars, reports_written, cvars, request>>

\* agent_runner.py:231 and test_runner.py:66
ApkRequired == ~skip_install /\ apk_spec = ""

\* the test specs of the runs that begin at the top of a runner
InitRunner(start, cmds) ==
    /\ pc = start
    /\ skip_install \in BOOLEAN
    /\ apk_spec \in {"", "app.apk"}
    /\ steps \in SeqsUpTo(cmds, MaxSteps)
    /\ extras = {}
    /\ resp_len = MaxItems
    /\ traced = {}
    /\ NoCall
    /\ Locals(SmallBudget, {"openai"}, {<<"g1">>}, {ClickA}, {Portrait})

\* lines 227-233
CheckApk ==
    /\ pc = "start"
    /\ io' = <<>>
    /\ IF ApkRequired
       THEN pc' = "done" /\ ret' = "2"
       ELSE pc' = "prepare" /\ ret' = ret
    /\ UNCHANGED <<config, stepvars, runvars, summary, exc>>

\* lines 239-246: the device is connected and the app prepared; a
\* RuntimeError of prepare_app is the return value 2, an exception of
\* connect leaves run_agent
PrepareApp ==
    /\ pc = "prepare"
    /\ \/ /\ io' = <<Call("connect", <<>>, "", FALSE)>>
          /\ pc' = "done"
          /\ ret' = "raised"
       \/ \E installed \in BOOLEAN, stopped \in BOOLEAN :
          \E f \in {0} \cup PrepareRaisable(prepare_app(skip_install, installed, stopped)) :
            /\ io' = <<Call("connect", <<>>, "", TRUE)>>
                     \o Performed(prepare_app(skip_install, installed, stopped), f)
            /\ IF f # 0 \/ PackageMissing(skip_install, installed)
               THEN pc' = "done" /\ ret' = "2"
               ELSE pc' = "pre_steps" /\ ret' = ret
    /\ UNCHANGED <<config, stepvars, runvars, summary, exc>>

\* the screenshot taken after a command: with the marker for a tap
AutoShot(st, ok) ==
    IF st.cmd = "tap" THEN Call("screenshot_with_marker", st.xy, "", ok)
    ELSE Call("screenshot", <<>>, st.cmd, ok)

\* lines 253-263: one pre-step; whatever it raises is printed as a warning
PreStep ==
    /\ pc = "pre_steps"
    /\ step_i < Len(steps)
    /\ LET st == steps[step_i + 1]
           r == execute_command(st)
       IN  \E f \in {0} \cup Raisable(r.calls), shot \in BOOLEAN :
             io' = Performed(r.calls, f)
                   \o (IF f = 0 /\ r.error = ""
                       THEN <<AutoShot(st, shot)>>
                       ELSE <<Call("warning", <<>>, "pre-step failed", TRUE)>>)
    /\ step_i' = step_i + 1
    /\ UNCHANGED <<config, events, runvars, summary, exc, ret, pc>>

\* lines 265-275: after the pre-steps run_agent goes on to the log capture
PreStepsDone ==
    /\ pc = "pre_steps"
    /\ step_i = Len(steps)
    /\ io' = <<>>
    /\ pc' = "logcat"
    /\ UNCHANGED <<config, stepvars, runvars, summary, exc, ret>>

NextPrologue ==
    \/ CheckApk
    \/ PrepareApp
    \/ PreStep
    \/ PreStepsDone

InitPrologue == InitRunner("start", {TapCmd, WaitCmd, FlyCmd})

SpecPrologue == InitPrologue /\ [][NextPrologue]_vars

\* ------------------------------------------- the deterministic runner
\* test_runner.py lines 63-68
DetCheckApk ==
    /\ pc = "det_start"
    /\ io' = <<>>
    /\ IF ApkRequired
       THEN pc' = "done" /\ ret' = "2"
       ELSE pc' = "det_prepare" /\ ret' = ret
    /\ UNCHANGED <<config, stepvars, runvars, summary, exc>>

\* lines 89-92: inside the try
DetPrepare ==
    /\ pc = "det_prepare"
    /\ \/ /\ io' = <<Call("connect", <<>>, "", FALSE)>>
          /\ pc' = "det_except"
          /\ exc' = "connect failed"
       \/ \E installed \in BOOLEAN, stopped \in BOOLEAN :
          \E f \in {0} \cup PrepareRaisable(prepare_app(skip_install, installed, stopped)) :
            /\ io' = <<Call("connect", <<>>, "", TRUE)>>
                     \o Performed(prepare_app(skip_install, installed, stopped), f)
            /\ IF f # 0
               THEN pc' = "det_except" /\ exc' = "Command failed"
               ELSE IF PackageMissing(skip_install, installed)
               THEN pc' = "det_except" /\ exc' = "Package not installed"
               ELSE pc' = "det_steps" /\ exc' = exc
    /\ UNCHANGED <<config, stepvars, runvars, summary, ret>>

\* lines 105-118: the event of a step
StepEvent(i, st) == [index |-> i, cmd |-> st.cmd, xy |-> st.xy]

\* lines 94-121: one step, its screenshot and its event
DetStep ==
    /\ pc = "det_steps"
    /\ step_i < Len(steps)
    /\ LET st == steps[step_i + 1]
           r == execute_command(st)
       IN  \E f \in {0} \cup Raisable(r.calls), shot \in BOOLEAN :
             IF f = 0 /\ r.error = ""
             THEN /\ io' = r.calls \o <<AutoShot(st, shot)>>
                  /\ events' = IF st.cmd = "tap" \/ shot
                               THEN Append(events, StepEvent(step_i + 1, st))
                               ELSE events
                  /\ step_i' = step_i + 1
                  /\ summary' = [summary EXCEPT !.executed = step_i + 1]
                  /\ UNCHANGED <<pc, exc>>
             ELSE /\ io' = Performed(r.calls, f)
                  /\ pc' = "det_except"
                  /\ exc' = IF r.error # "" THEN r.error ELSE "Command failed"
                  /\ UNCHANGED <<events, step_i, summary>>
    /\ UNCHANGED <<config, runvars, ret>>

\* line 123
DetDone ==
    /\ pc = "det_steps"
    /\ step_i = Len(steps)
    /\ io' = <<>>
    /\ summary' = [summary EXCEPT !.ok = TRUE]
    /\ pc' = "det_teardown"
    /\ UNCHANGED <<config, stepvars, runvars, exc, ret>>

\* lines 124-128
DetExcept ==
    /\ pc = "det_except"
    /\ io' = <<>>
    /\ summary' = ExceptSummary(summary, exc)
    /\ pc' = "det_teardown"
    /\ UNCHANGED <<config, stepvars, runvars, exc, ret>>

\* lines 129-233: teardown, the reports, the return value.  When connect
\* raised, `device` was never bound and line 136 raises in its turn.
DetTeardown ==
    /\ pc = "det_teardown"
    /\ IF exc = "connect failed"
       THEN /\ io' = <<>>
            /\ ret' = "raised"
            /\ UNCHANGED reports_written
       ELSE /\ io' = <<Call("teardown_app", <<>>, "", TRUE)>>
            /\ ret' = IF summary.ok THEN "0" ELSE "1"
            /\ reports_written' = TRUE
    /\ pc' = "done"
    /\ UNCHANGED <<config, stepvars, logcat_proc, recorder, loopvars, cvars, request,
                   summary, exc>>

NextDet ==
    \/ DetCheckApk
    \/ DetPrepare
    \/ DetStep
    \/ DetDone
    \/ DetExcept
    \/ DetTeardown

InitDet == InitRunner("det_start", Commands)

SpecDet == InitDet /\ [][NextDet]_vars

\* ------------------------------------------ functions called on their own
\* everything but pc, call_arg and call_ret
restvars == <<inputs, stepvars, logcat_proc, recorder, loopvars, reports_written, cvars,
              request, summary, exc, ret, io>>

\* a function is called on one of args, outside any run
InitCall(start, args) ==
    /\ pc = start
    /\ call_arg \in args
    /\ call_ret = <<>>
    /\ skip_install = FALSE
    /\ apk_spec = "app.apk"
    /\ steps = <<>>
    /\ extras = {}
    /\ resp_len = MaxItems
    /\ traced = {}
    /\ Locals(SmallBudget, {"openai"}, {<<"g1">>}, {ClickA}, {Portrait})

\* the physical sizes and rotations the device reports
Sizes == {<<w, h>> : w \in {720, 1080, 1440}, h \in {1080, 1280, 2400}}
Rotations == {0, 90, 180, 270}

\* the loop's computation of the canvas, Repeats times on the same reading
CallCanvas ==
    /\ pc = "canvas"
    /\ Len(call_ret) < Repeats
    /\ call_ret' = Append(call_ret, Canvas(call_arg))
    /\ UNCHANGED <<pc, call_arg, restvars>>

\* then ScreenInfo's, on the same reading
CallScreenInfo ==
    /\ pc = "canvas"
    /\ Len(call_ret) = Repeats
    /\ call_ret' = Append(call_ret, <<canvas_width(call_arg), canvas_height(call_arg)>>)
    /\ pc' = "done"
    /\ UNCHANGED <<call_arg, restvars>>

NextScreen ==
    \/ CallCanvas
    \/ CallScreenInfo

InitScreen == InitCall("canvas", {Screen(phy, r, <<>>) : phy \in Sizes, r \in Rotations})

SpecScreen == InitScreen /\ [][NextScreen]_vars

\* ------------------------------------------------ AndroidDevice.input_text
\* a text is the sequence of its characters
\* android_framework.py:85  [^A-Za-z0-9_%@.,:\-]
Upper == {"A", "B", "C", "D", "E", "F", "G", "H", "I", "J", "K", "L", "M",
          "N", "O", "P", "Q", "R", "S", "T", "U", "V", "W", "X", "Y", "Z"}
Lower == {"a", "b", "c", "d", "e", "f", "g", "h", "i", "j", "k", "l", "m",
          "n", "o", "p", "q", "r", "s", "t", "u", "v", "w", "x", "y", "z"}
Digits == {"0", "1", "2", "3", "4", "5", "6", "7", "8", "9"}
safe == Upper \cup Lower \cup Digits \cup {"_", "%", "@", ".", ",", ":", "-"}

\* line 82: text.replace(" ", "%s")
RECURSIVE ReplaceSpaces(_)
ReplaceSpaces(text) ==
    IF text = <<>> THEN <<>>
    ELSE (IF Head(text) = " " THEN <<"%", "s">> ELSE <<Head(text)>>)
         \o ReplaceSpaces(Tail(text))

\* line 86: safe.sub("_", text)
RECURSIVE SubUnsafe(_)
SubUnsafe(text) ==
    IF text = <<>> THEN <<>>
    ELSE <<IF Head(text) \in safe THEN Head(text) ELSE "_">> \o SubUnsafe(Tail(text))

\* a sanitizer that leaves the spaces to the second replacement
_sanitize_text_for_adb_input_one_pass(text) == SubUnsafe(text)

_sanitize_text_for_adb_input(text) == SubUnsafe(ReplaceSpaces(text))

\* the characters of the texts: a letter, a digit, the space, the percent
\* sign, a character outside the allow-list, an allowed punctuation mark
Chars == {"a", "7", " ", "%", "!", "-"}

\* lines 288-290: input_text sanitizes the text and sends it
CallInputText ==
    /\ pc = "input_text"
    /\ Len(call_ret) < Repeats
    /\ call_ret' = Append(call_ret, _sanitize_text_for_adb_input(call_arg))
    /\ UNCHANGED <<pc, call_arg, restvars>>

InitText == InitCall("input_text", SeqsUpTo(Chars, MaxText))

SpecText == InitText /\ [][CallInputText]_vars

\* ---------------------------------------------------- parse_install_config
\* a field of the test spec: absent, true, false or null
FieldValues == {"absent", "true", "false", "null"}

\* bool(v) of a JSON value that is present: true, 1 and a non-empty string
\* are truthy; false, 0 and null are not
Truthy(v) == v \in {"true", "one", "string"}

\* spec.get(key, default) as a boolean, default being a boolean
GetBool(v, default) == IF v = "absent" THEN default ELSE Truthy(v)

\* app_lifecycle.py lines 16-22
parse_install_config(spec) ==
    LET skip == GetBool(spec.skip_install, FALSE) \/ GetBool(spec.skip_stall, FALSE)
        uninstall == GetBool(spec.uninstall_after, ~skip)
    IN  [skip_install |-> skip,
         uninstall_after |-> IF GetBool(spec.skip_stall, FALSE) THEN FALSE ELSE uninstall]

CallParseInstallConfig ==
    /\ pc = "parse_install_config"
    /\ Len(call_ret) < Repeats
    /\ call_ret' = Append(call_ret, parse_install_config(call_arg))
    /\ UNCHANGED <<pc, call_arg, restvars>>

InitInstall ==
    InitCall("parse_install_config",
             [skip_install : FieldValues, skip_stall : FieldValues,
              uninstall_after : FieldValues])

SpecInstall == InitInstall /\ [][CallParseInstallConfig]_vars

\* ------------------------------------------- OpenAIProvider._parse_end_test
\* a function/tool call item of a response.  name: the tool's name as the
\* item gives it ("" when it gives none); form: the shape of `arguments`;
\* success: the value of the success field of the object the arguments hold,
\* "absent" when they hold none ("string" is the JSON string "false").
ToolCall(name, form, success) == [name |-> name, form |-> form, success |-> success]

ToolNames == {"end_test", " End_Test ", "other", ""}

\* "dict": an object; "json_object": a string of JSON that is an object;
\* "json_other": a string of JSON that is not an object; "bad_json": a string
\* that is not JSON; "parts": a list with an input_json part; "absent"
ArgumentForms == {"dict", "json_object", "json_other", "bad_json", "parts", "absent"}

SuccessValues == {"true", "false", "null", "one", "zero", "string", "absent"}

\* line 121: str(tool_name).strip().lower()
StripLower(name) == IF name = " End_Test " THEN "end_test" ELSE name

\* lines 125-160: the success field of args, "absent" when args is {};
\* "raises" when args is no dict and args.get raises
ArgsSuccess(item) ==
    IF item.form \in {"dict", "json_object", "parts"} THEN item.success
    ELSE IF item.form = "json_other" THEN "raises"
    ELSE "absent"

\* lines 112-165: the item made of the call, <<>> for None
_parse_end_test(item) ==
    IF StripLower(item.name) # "end_test" THEN <<>>
    ELSE IF ArgsSuccess(item) = "raises" THEN <<>>
    ELSE <<Item("end_test", NoAction,
                IF ArgsSuccess(item) = "absent" THEN FALSE ELSE Truthy(ArgsSuccess(item)))>>

CallParseEndTest ==
    /\ pc = "parse_end_test"
    /\ Len(call_ret) < Repeats
    /\ call_ret' = Append(call_ret, _parse_end_test(call_arg))
    /\ UNCHANGED <<pc, call_arg, restvars>>

InitEndTest ==
    InitCall("parse_end_test",
             {ToolCall(n, f, v) : n \in ToolNames, f \in ArgumentForms, v \in SuccessValues})

SpecEndTest == InitEndTest /\ [][CallParseEndTest]_vars

\* ------------------------------------------------- a scroll of Claude's tool
Directions == {"down", "up", "right", "left"}
Points == {<<0, 0>>, <<100, 100>>, <<540, 1200>>, <<1079, 2399>>}

\* claude_provider.py line 304 and agent_runner.py line 451: the payload is
\* normalized and the action executed
CallScroll ==
    /\ pc = "scroll"
    /\ Len(call_ret) < Repeats
    /\ call_ret' = Append(call_ret,
                          [action |-> _normalize_action(call_arg),
                           calls |-> map_computer_action(_normalize_action(call_arg)).calls])
    /\ UNCHANGED <<pc, call_arg, restvars>>

InitScroll ==
    InitCall("scroll",
             {Input("scroll", xy, <<>>, "", d, <<n>>) :
                 xy \in Points, d \in Directions, n \in 0..MaxAmount})

SpecScroll == InitScroll /\ [][CallScroll]_vars

\* ------------------------------------------------------------- a drag
\* the points of a path: two with x and y, one without
PathPoints == {<<10, 20>>, <<700, 800>>, <<>>}

\* actions.py lines 72-91
CallDrag ==
    /\ pc = "drag"
    /\ Len(call_ret) < Repeats
    /\ call_ret' = Append(call_ret, map_computer_action(call_arg))
    /\ UNCHANGED <<pc, call_arg, restvars>>

InitDrag ==
    InitCall("drag",
             {DragWithPath(xy, xy2, path) :
                 xy \in {<<>>, <<100, 100>>}, xy2 \in {<<>>, <<300, 100>>},
                 path \in SeqsUpTo(PathPoints, MaxPath)})

SpecDrag == InitDrag /\ [][CallDrag]_vars

\* ------------------------------------------------------------- properties
EndedSubs == {e[1] : e \in ended}
Ops(calls) == {calls[i].op : i \in DOMAIN calls}
LoopOps == {"screenshot", "screenshot_with_marker", "create_turn"} \cup DeviceActionOps
Returned == pc = "done" /\ ret # "raised"
BackCall == Call("keyevent", <<>>, ToString(KEYCODE_BACK), TRUE)
SentBack == \E i \in DOMAIN io : io[i] = BackCall
AfterActionItem == pc = "items" /\ io # <<>> /\ io[1] = Call("log", <<>>, "Action", TRUE)
AfterCreateTurn == \E i \in DOMAIN io : io[i].op = "create_turn"

\* C1: when run_agent returns, summary.ok is true exactly when every
\* sub-goal of the test ended with a processed end_test(success=true) and no
\* exception was caught; sub-goals end in order, none before its predecessor.
C1_SummaryOk ==
    /\ \A k \in EndedSubs : \A j \in 1..(k - 1) : j \in EndedSubs
    /\ Returned =>
         (summary.ok <=> /\ \A k \in 1..Len(steps_spec) : k \in EndedSubs
                         /\ exc = ""
                         /\ summary.errors = <<>>)

C1_Witness ==
    /\ Returned /\ summary.ok /\ ret = "0"
    /\ Len(steps_spec) = 2 /\ EndedSubs = {1, 2}

\* C2: once sub-goal k is recorded as failed, it is the last one recorded,
\* results exist for exactly 1..k, the loop never moves to a later sub-goal,
\* no screenshot, model call or device action follows, and the run is not ok.
C2_AbortOnFailure ==
    /\ \A i \in DOMAIN substep_results : substep_results[i].index = i
    /\ \A k \in DOMAIN substep_results :
         ~substep_results[k].ok =>
            /\ Len(substep_results) = k
            /\ sub_idx = k
            /\ pc \in {"loop_end", "finally", "reports", "done"}
            /\ Ops(io) \cap LoopOps = {}
            /\ ~summary.ok
            /\ pc = "done" => ret = "1"

C2_Witness ==
    /\ Returned /\ Len(steps_spec) = 2
    /\ Len(substep_results) = 1 /\ ~substep_results[1].ok
    /\ summary.substeps = substep_results

\* C3: once an end_test(success=true) item is processed, no later item of
\* the turn is processed, no further turn is made for the sub-goal, and the
\* sub-goal is recorded ok with the number of the turn the item arrived in.
C3_EndTestTrueEnds ==
    /\ \A e \in ended : \A f \in ended : e[1] = f[1] => e = f
    /\ (finished /\ pc \in {"items", "turn"}) =>
          /\ <<sub_idx, turns_this_sub>> \in ended
          /\ explicit_success = "true"
    /\ (finished /\ pc = "items") =>
          /\ io # <<>>
          /\ io[Len(io)] = Call("log", <<>>, "end_test tool called", TRUE)
    /\ (finished /\ pc = "turn") => io = <<>>
    /\ \A e \in ended :
          e[1] \in DOMAIN substep_results =>
             /\ substep_results[e[1]].ok
             /\ substep_results[e[1]].turns = e[2]

C3_Witness ==
    /\ pc = "sub_begin" /\ sub_idx = 2
    /\ items # <<>> /\ Head(items).type = "computer_action"
    /\ substep_results = <<[index |-> 1, ok |-> TRUE, turns |-> 1]>>
    /\ MAX_AGENT_STEPS > 1

\* C4: processing an end_test(success=false) item ends nothing and changes
\* no loop state (finished, success flag, repetition tracker, counters,
\* messages, results) and appends no trace event; the loop stays in the
\* turn, at the next item.  A sub-goal in which no end_test(success=true)
\* was processed is recorded failed, with the whole turn budget used.
EndTestFalseNext ==
    /\ pc = "items" /\ items # <<>> /\ ~finished
    /\ Head(items).type = "end_test" /\ ~Head(items).success

EndTestFalseStep ==
    EndTestFalseNext =>
        /\ UNCHANGED <<finished, explicit_success, last_sig, repeat_count, executed_any,
                       actions_this_turn, turns_this_sub, sub_idx, input_messages,
                       substep_results, summary, ended, exc, pc>>
        /\ items' = Tail(items)
        /\ Ops(io') \cap ({"event"} \cup LoopOps) = {}

C4_EndTestFalseIgnored ==
    /\ [][EndTestFalseStep]_vars
    /\ [](\A i \in DOMAIN substep_results :
            i \notin EndedSubs =>
               /\ ~substep_results[i].ok
               /\ substep_results[i].turns = MAX_AGENT_STEPS)

C4_Witness ==
    /\ pc = "items" /\ ~finished
    /\ io = <<Call("log", <<>>, "Ignored end_test", TRUE)>>
    /\ items # <<>> /\ Head(items).type = "computer_action"

\* C5: a sub-goal never gets more than MAX_AGENT_STEPS turns; a sub-goal
\* recorded failed used exactly MAX_AGENT_STEPS turns, and its failure adds
\* nothing to the error list.
C5_TurnBudget ==
    /\ turns_this_sub <= MAX_AGENT_STEPS
    /\ \A i \in DOMAIN substep_results :
          /\ substep_results[i].turns <= MAX_AGENT_STEPS
          /\ ~substep_results[i].ok =>
                /\ substep_results[i].turns = MAX_AGENT_STEPS
                /\ summary.errors = <<>>
                /\ exc = ""

C5_Witness ==
    /\ Returned /\ ret = "1" /\ summary.errors = <<>>
    /\ substep_results = <<[index |-> 1, ok |-> FALSE, turns |-> MAX_AGENT_STEPS]>>
    /\ request # <<>>

\* C6: of the identical computer actions the model emits in a row within a
\* sub-goal, the first 9 are executed, the 10th is replaced by the BACK key
\* event with the counter back at 0, and the 11th is executed with the
\* counter at 1.
C6_TenthReplacedByBack ==
    AfterActionItem =>
        /\ streak \in 1..(RepeatThreshold - 1) => ~SentBack
        /\ streak = RepeatThreshold => (SentBack /\ repeat_count = 0)
        /\ streak = RepeatThreshold + 1 => (~SentBack /\ repeat_count = 1)

\* C7: after create_turn, a device action or a screenshot of the loop has
\* raised, no model call and no device action follows, the message is in
\* summary.errors, the run is not ok, the reports are written and run_agent
\* returns 1.
C7_ExceptionEndsRun ==
    exc # "" =>
        /\ pc \in {"except", "finally", "reports", "done"}
        /\ pc = "except" => (io # <<>> /\ ~io[Len(io)].ok)
        /\ pc # "except" =>
              /\ summary.errors = <<exc>>
              /\ ~summary.ok
              /\ Ops(io) \cap ({"create_turn"} \cup DeviceActionOps) = {}
        /\ pc = "done" => (reports_written /\ ret = "1")

C7_Witness ==
    /\ pc = "done" /\ reports_written /\ ret = "1"
    /\ exc = "device command failed" /\ summary.errors = <<exc>>

\* C8: on every way out of run_agent once the log capture was started, the
\* log capture has been terminated or killed and the recorder stopped.
C8_CleanupOnEveryExit ==
    pc = "done" => (logcat_proc # "running" /\ recorder # "recording")

\* C9: the request of every create_turn call holds a screenshot captured
\* after every device action executed so far.
C9_FreshScreenshot ==
    AfterCreateTurn => \E i \in DOMAIN request : request[i].fresh

C9_Witness ==
    /\ provider = "claude" /\ AfterCreateTurn
    /\ request[Len(request)].kind = "tool_results"
    /\ ~request[Len(request)].fresh
    /\ \E i \in DOMAIN request : request[i].fresh

\* C10: with the Claude backend, the request of the first turn of every
\* sub-goal after the first is that sub-goal's opening message alone:
\* the history and the pending tool uses of the sub-goal before are gone.
C10_ResetAtSubGoal ==
    (provider = "claude" /\ AfterCreateTurn /\ sub_idx > 1 /\ turns_this_sub = 1) =>
        request = <<format_user_message(base_user_context(sub_idx), "", sub_idx)>>

\* the runs in which the model asks only for actions map_computer_action
\* turns down: a click without coordinates, a key action without a key, an
\* action of an unknown type
InitMalformed == InitWith(SmallBudget, {"openai"}, {<<"g1">>}, {ClickNoXY, KeyNoKey, HoverA})

SpecMalformed == InitMalformed /\ [][Next]_vars

\* the runs of the Claude backend whose payloads lack coordinates
InitFab == InitWith(SmallBudget, {"claude"}, {<<"g1">>}, {ClickNoXY, DragNoStart})

SpecFab == InitFab /\ [][Next]_vars

\* the runs on a device that is in portrait or landscape and whose display
\* size can or cannot be read
InitCanvas ==
    InitLoop(SmallBudget, {"openai"}, {<<"g1">>}, {ClickA},
             {Screen(<<1080, 2400>>, r, d) : r \in {0, 90}, d \in {<<>>, <<1080, 2400>>}})

SpecCanvas == InitCanvas /\ [][Next]_vars

\* run_agent at line 323, the first sub-goal: the log capture and the
\* recording have started
InitSubGoals(budget, provs, specs, acts, kinds, len, tr) ==
    /\ pc = "sub_begin"
    /\ skip_install = FALSE
    /\ apk_spec = "app.apk"
    /\ steps = <<>>
    /\ extras = kinds
    /\ resp_len = len
    /\ traced = tr
    /\ NoCall
    /\ LocalsFrom(budget, provs, specs, acts, {Portrait}, "running", "recording", 1)

\* the runs with the long turn budget over two sub-goals
InitStreak ==
    InitSubGoals(GuardBudget, {"openai"}, {<<"g1", "g2">>}, {ClickA}, {}, MaxItems, {})

NextSubGoals ==
    \/ BeginSubGoal
    \/ CreateTurn
    \/ ProcessItem
    \/ EndTurn
    \/ RecordSubGoal
    \/ FinishLoop
    \/ HandleException
    \/ Finally
    \/ WriteReports

SpecStreak == InitStreak /\ [][NextSubGoals]_vars

\* the runs over two sub-goals in which web_events is followed
InitTrace ==
    InitSubGoals(OneTurn, {"openai"}, {<<"g1", "g2">>}, {ClickA, KeyEnter}, {}, MaxItems, {"web_events"})

\* the runs of both backends whose responses have up to LongItems blocks,
\* among them blocks of one kind the adapters drop
InitOrder ==
    \E kind \in {"empty_text", "unknown"} :
        InitSubGoals(OneTurn, Providers, {<<"g1">>}, {ClickA}, {kind}, LongItems,
                     {"raw_response"})

SpecOrder == InitOrder /\ [][NextSubGoals]_vars

SpecTrace == InitTrace /\ [][NextSubGoals]_vars

\* the runs of two sub-goals with one turn each, in which every call returns
\* or raises: a step that can be taken is taken
InitLive == InitSubGoals(OneTurn, Providers, {<<"g1", "g2">>}, {ClickA}, {}, MaxItems, {})

\* the runs of the history-keeping backend with the ids of its tool calls
InitHistory ==
    InitSubGoals(SmallBudget, {"claude"}, {<<"g1">>}, {ClickA}, {}, MaxItems, {"tool_ids"})

SpecHistory == InitHistory /\ [][NextSubGoals]_vars

\* the runs whose model only asks for one action without device effect: a
\* screenshot (what Claude's adapter makes of the actions it does not know),
\* an action of a type the dispatch does not know
InitNoop ==
    \E run \in {<<"openai", ScreenshotA>>, <<"openai", HoverA>>} :
        InitSubGoals(GuardBudget, {run[1]}, {<<"g1">>}, {run[2]}, {}, MaxItems, {})

SpecNoop == InitNoop /\ [][NextSubGoals]_vars

SpecLive == InitLive /\ [][NextSubGoals]_vars /\ WF_vars(NextSubGoals)

LackingActions ==
    {ClickNoXY, DoubleClickNoXY, DragNoStart, DragNoEnd, ScrollNoXY, ScrollNoDelta, KeyNoKey}
ErrorResults ==
    {"error: missing coordinates", "error: missing drag coordinates",
     "error: missing scroll parameters", "error: missing key"}
KnownTypes == {"click", "double_click", "drag", "scroll", "type", "key", "wait", "screenshot"}
AfterItemOf(kind) == io # <<>> /\ io[1] = Call("log", <<>>, kind, TRUE)
DeviceActionIn(calls) == \E i \in DOMAIN calls : IsDeviceAction(calls[i])

C14_UnknownTypeIsAnError ==
    (AfterItemOf("Action") /\ pc = "items" /\ last_sig.type \notin KnownTypes) =>
        /\ map_result \in ErrorResults
        /\ ~DeviceActionIn(io)

\* C15: with the Claude backend no tap and no swipe goes to a point that no
\* payload of the model gave.
GivenPoints ==
    {inp.coordinate : inp \in Payloads("claude")}
    \cup {inp.start_coordinate : inp \in Payloads("claude")}
PointsOf(call) ==
    IF Len(call.xy) = 4 THEN {<<call.xy[1], call.xy[2]>>, <<call.xy[3], call.xy[4]>>}
    ELSE {call.xy}

C15_NoFabricatedCoordinates ==
    provider = "claude" =>
        \A i \in DOMAIN io :
            io[i].op \in {"tap", "swipe"} => PointsOf(io[i]) \subseteq GivenPoints

\* C16: when no action the model asks for gets a "success" result, no turn
\* counts an executed action, and no request tells the model that the state
\* was updated by actions.
C16_FailedActionNotCounted ==
    (\A a \in repertoire : map_computer_action(a).result # "success") =>
        /\ ~executed_any
        /\ actions_this_turn = 0
        /\ \A i \in DOMAIN request : request[i].note # "State updated after actions"

\* C17: the display size passed to create_turn is the physical size read in
\* that turn, with width and height swapped exactly when the rotation read in
\* that turn is 90 or 270.
C17_CanvasPassed ==
    AfterCreateTurn =>
        \E scr \in screens :
            /\ io[1] = Call("wm_size", scr.phy, "", TRUE)
            /\ io[2] = Call("dumpsys_input", <<>>, ToString(scr.rotation), TRUE)
            /\ io[4].xy = Canvas(scr)

\* C19: a marker screenshot that fails is followed by the tap it was taken
\* for, and the item raises only if a device command does; an end_test
\* screenshot that fails leaves the sub-goal ended as passed; a raw response
\* file that cannot be written leaves the turn going; the error list holds
\* nothing but the message of a failed model call, device command or
\* screenshot of the loop.
C19_BookkeepingNeverAborts ==
    /\ \A i \in DOMAIN io :
          io[i].op = "screenshot_with_marker" =>
             /\ Len(io) >= i + 2
             /\ io[i + 2].op = "tap" /\ io[i + 2].xy = io[i].xy
    /\ pc = "except" => io[Len(io)].op \in {"create_turn", "screenshot"} \cup DeviceActionOps
    /\ (\E i \in DOMAIN io : io[i] = Call("screenshot", <<>>, "end_test", FALSE)) =>
          /\ pc = "items" /\ exc = ""
          /\ finished /\ explicit_success = "true"
          /\ <<sub_idx, turns_this_sub>> \in ended
    /\ (\E i \in DOMAIN io : io[i] = Call("write_raw_response", <<>>, "", FALSE)) =>
          (pc = "items" /\ exc = "")
    /\ summary.errors # <<>> =>
          /\ summary.errors = <<exc>>
          /\ exc \in {"create_turn failed", "device command failed", "screenshot failed"}

C19_Witness ==
    /\ pc = "items" /\ exc = ""
    /\ \E i \in DOMAIN io :
          /\ io[i] = Call("screenshot_with_marker", ClickA.xy, "", FALSE)
          /\ io[i + 2] = Call("tap", ClickA.xy, "", TRUE)

KnownCommands ==
    {"wait", "tap", "swipe", "input_text", "keyevent", "back", "home", "screenshot",
     "launch", "stop"}
AfterPrepare == Len(io) >= 2 /\ io[1] = Call("connect", <<>>, "", TRUE)
PackageAbsent == AfterPrepare /\ io[2] = Call("is_package_installed", <<>>, "", FALSE)
PackagePresent == AfterPrepare /\ io[2] = Call("is_package_installed", <<>>, "", TRUE)

\* C11: the deterministic runner ends with status 0 exactly when the run
\* is ok, with 2 exactly when the apk reference is missing while
\* installation is not skipped or the package is absent while it is skipped,
\* and with 1 (a return of 1 or an exception that leaves main) otherwise.
ConfigurationError == ApkRequired \/ exc = "Package not installed"

C11_ExitStatus ==
    pc = "done" =>
        /\ ret = "0" <=> (summary.ok /\ ~ConfigurationError)
        /\ ret = "2" <=> ConfigurationError
        /\ ret \in {"1", "raised"} <=> (~summary.ok /\ ~ConfigurationError)

\* C12: once a pre-step with an unknown cmd has been executed, the agent
\* runner does not go on to the agent loop.
C12_UnknownCommandIsFatal ==
    (\E k \in 1..step_i : steps[k].cmd \notin KnownCommands \cup {""}) => pc # "logcat"

\* C18: with skip_install, prepare_app calls neither install nor uninstall;
\* when the package is absent it raises after the question, before any stop
\* or launch; when the package is present it force-stops, then launches.
C18_SkipInstall ==
    (skip_install /\ AfterPrepare) =>
        /\ Ops(io) \cap {"install_apk", "uninstall"} = {}
        /\ PackageAbsent => (Len(io) = 2 /\ pc = "done" /\ ret = "2")
        /\ PackagePresent =>
              /\ Len(io) = 4
              /\ io[3].op = "stop_app"
              /\ io[4].op = "launch_app"

C18_Witness ==
    /\ skip_install /\ PackagePresent /\ pc = "pre_steps"
    /\ io[3] = Call("stop_app", <<>>, "", TRUE)
    /\ io[4] = Call("launch_app", <<>>, "", TRUE)

\* C20: in the deterministic runner a tap step that has been executed made
\* one tap at its (x, y), then one marker screenshot at (x, y), and its
\* event with those coordinates is the last recorded; the steps are executed
\* in list order, each tap step executed has exactly one event.
TapsDone == {k \in 1..step_i : steps[k].cmd = "tap"}
TapEvents == {k \in DOMAIN events : events[k].cmd = "tap"}

C20_TapStep ==
    pc \in {"det_steps", "det_except", "det_teardown"} =>
        /\ step_i <= Len(steps)
        /\ summary.executed = step_i
        /\ \A k \in DOMAIN events :
              /\ events[k].index \in 1..step_i
              /\ events[k] = StepEvent(events[k].index, steps[events[k].index])
              /\ \A j \in DOMAIN events : j < k => events[j].index < events[k].index
        /\ Cardinality(TapEvents) = Cardinality(TapsDone)
        /\ (pc = "det_steps" /\ step_i > 0 /\ steps[step_i].cmd = "tap") =>
              /\ Len(io) = 2
              /\ io[1] = Call("tap", steps[step_i].xy, "", TRUE)
              /\ io[2].op = "screenshot_with_marker" /\ io[2].xy = steps[step_i].xy
              /\ events[Len(events)] = StepEvent(step_i, steps[step_i])

C20_Witness ==
    /\ pc = "det_steps" /\ step_i = 2
    /\ steps = <<TapCmd, TapCmd2>>
    /\ events = <<StepEvent(1, TapCmd), StepEvent(2, TapCmd2)>>

\* C21: for a rotation of 90 or 270 the canvas is (height, width), for 0 or
\* 180 it is (width, height); every computation on the same reading gives the
\* same pair, and ScreenInfo's canvas_width and canvas_height give that pair
\* too.
C21_CanvasOfRotation ==
    pc \in {"canvas", "done"} =>
        \A i \in DOMAIN call_ret :
            /\ call_arg.rotation \in {90, 270} =>
                  call_ret[i] = <<call_arg.phy[2], call_arg.phy[1]>>
            /\ call_arg.rotation \in {0, 180} => call_ret[i] = call_arg.phy
            /\ call_ret[i] = call_ret[1]

C21_Witness ==
    /\ pc = "done" /\ Len(call_ret) = Repeats + 1
    /\ call_arg = Screen(<<1080, 2400>>, 270, <<>>)
    /\ \A i \in DOMAIN call_ret : call_ret[i] = <<2400, 1080>>

\* what C22 asks of one character
SentFor(c) == IF c = " " THEN <<"%", "s">> ELSE IF c \in safe THEN <<c>> ELSE <<"_">>
RECURSIVE SentForAll(_)
SentForAll(text) == IF text = <<>> THEN <<>> ELSE SentFor(Head(text)) \o SentForAll(Tail(text))

C23_InstallConfig ==
    pc = "parse_install_config" =>
        \A i \in DOMAIN call_ret :
            /\ call_ret[i].skip_install =
                  (Truthy(call_arg.skip_install) \/ Truthy(call_arg.skip_stall))
            /\ call_ret[i].uninstall_after =
                  IF call_arg.uninstall_after # "absent"
                  THEN Truthy(call_arg.uninstall_after)
                  ELSE ~call_ret[i].skip_install

\* C24: the OpenAI adapter makes EndTest(success=true) of a function/tool
\* call only when the call is named end_test and its arguments hold an object
\* whose success field is the boolean true; of every other call it makes
\* nothing or EndTest(success=false).
C24_EndTestOnlyOnTrue ==
    pc = "parse_end_test" =>
        \A i \in DOMAIN call_ret :
            /\ call_ret[i] \in {<<>>, <<Item("end_test", NoAction, TRUE)>>,
                                <<Item("end_test", NoAction, FALSE)>>}
            /\ call_ret[i] = <<Item("end_test", NoAction, TRUE)>> =>
                  /\ StripLower(call_arg.name) = "end_test"
                  /\ call_arg.form \in {"dict", "json_object", "parts"}
                  /\ call_arg.success = "true"

\* the item the loop is at is an action on which the guard fires
GuardNext ==
    /\ pc = "items" /\ ItemsLeft
    /\ Head(items).type = "computer_action"
    /\ Head(items).action = last_sig
    /\ GuardFires(repeat_count + 1)

GuardCalls ==
    <<Call("log", <<>>, "Action", TRUE), Call("log", <<>>, "Detected repeated action", TRUE),
      BackCall, Call("wait", <<>>, "", TRUE)>>

GuardStep ==
    GuardNext =>
        /\ UNCHANGED <<last_sig, executed_any, actions_this_turn, finished, explicit_success,
                       turns_this_sub, sub_idx, substep_results, web_events>>
        /\ \/ /\ io' = GuardCalls
              /\ repeat_count' = 0
              /\ items' = Tail(items)
              /\ pc' = "items" /\ exc' = ""
           \/ /\ io' = SubSeq(GuardCalls, 1, 2) \o <<[BackCall EXCEPT !.ok = FALSE]>>
              /\ pc' = "except"

\* C25: when the guard fires on an action item, no tap, swipe, text or key
\* of the action is sent, no marker is taken, no event recorded and no
\* executed action counted; one key event 4 is sent and the settle delay
\* follows it; the counter becomes 0 and the signature stays; the loop is at
\* the next item of the turn.
C25_GuardReplacesAction == [][GuardStep]_vars

C25_Witness ==
    /\ pc = "items" /\ io = GuardCalls
    /\ repeat_count = 0 /\ last_sig = ClickA
    /\ ~executed_any /\ actions_this_turn = 0
    /\ items # <<>> /\ ~finished /\ exc = ""

\* the item the loop is at is an action
ActionNext == pc = "items" /\ ItemsLeft /\ Head(items).type = "computer_action"

BackSent == \E i \in DOMAIN io : io[i].op = "keyevent" /\ io[i].key = ToString(KEYCODE_BACK)

TrackerInv ==
    /\ \A a \in {ClickA, KeyEnter} : \A b \in {ClickA, KeyEnter, NoAction} :
          \A n \in 0..(RepeatThreshold - 1) :
             RepeatCount(a, b, n) = IF a = b THEN n + 1 ELSE 0
    /\ exc = "" => repeat_count \in 0..(RepeatThreshold - 1)
    /\ BackSent => streak >= RepeatThreshold
    /\ streak > 0 => last_sig # NoAction

TrackerStep ==
    /\ (pc = "sub_begin" /\ pc' = "turn") => (last_sig' = NoAction /\ repeat_count' = 0)
    /\ (pc # "sub_begin" /\ ~ActionNext) => UNCHANGED <<last_sig, repeat_count>>
    /\ (ActionNext /\ Head(items).action # last_sig) =>
          (last_sig' = Head(items).action /\ repeat_count' = 0)

DeltaOf(d, n) ==
    IF d = "down" THEN <<0, 100 * n>>
    ELSE IF d = "up" THEN <<0, 0 - 100 * n>>
    ELSE IF d = "right" THEN <<100 * n, 0>>
    ELSE <<0 - 100 * n, 0>>

\* C27: a scroll payload of Claude's tool at (x, y) with direction d and
\* amount n is normalized to the deltas (0, 100n), (0, -100n), (100n, 0),
\* (-100n, 0) for down, up, right, left; for n > 0 exactly one of the two is
\* not 0; and the action is executed as one swipe from (x, y) to
\* (x + scroll_x, y + scroll_y).
C27_ScrollDelta ==
    pc = "scroll" =>
        \A i \in DOMAIN call_ret :
            LET n == call_arg.scroll_amount[1]
                xy == call_arg.coordinate
                dxy == call_ret[i].action.dxy
            IN  /\ call_ret[i].action.type = "scroll"
                /\ call_ret[i].action.xy = xy
                /\ dxy = DeltaOf(call_arg.scroll_direction, n)
                /\ n > 0 => ((dxy[1] = 0) # (dxy[2] = 0))
                /\ call_ret[i].calls =
                      <<Call("swipe", <<xy[1], xy[2], xy[1] + dxy[1], xy[2] + dxy[2]>>, "", TRUE)>>

C27_Witness ==
    /\ pc = "scroll" /\ Len(call_ret) = Repeats
    /\ call_arg = Input("scroll", <<540, 1200>>, <<>>, "", "up", <<2>>)
    /\ call_ret[1].calls = <<Call("swipe", <<540, 1200, 540, 1000>>, "", TRUE)>>

OneSwipe(from, to) ==
    [calls |-> <<Call("swipe", from \o to, "", TRUE)>>, result |-> "success"]

\* C28: a drag with x, y, x2 and y2 is one swipe from (x, y) to (x2, y2),
\* whatever its path; a drag without x2 or y2 and with a path of two points or
\* more is one swipe from the first point of the path to the last; a drag
\* without x2 or y2 and without such a path is no swipe and an error string.
C28_DragEnds ==
    pc = "drag" =>
        \A i \in DOMAIN call_ret :
            LET path == call_arg.path
            IN  /\ (call_arg.xy # <<>> /\ call_arg.xy2 # <<>>) =>
                      call_ret[i] = OneSwipe(call_arg.xy, call_arg.xy2)
                /\ (call_arg.xy2 = <<>> /\ Len(path) >= 2
                        /\ path[1] # <<>> /\ path[Len(path)] # <<>>) =>
                      call_ret[i] = OneSwipe(path[1], path[Len(path)])
                /\ (call_arg.xy2 = <<>> /\ Len(path) < 2) =>
                      /\ call_ret[i].calls = <<>>
                      /\ call_ret[i].result \in ErrorResults

C28_Witness ==
    /\ pc = "drag" /\ Len(call_ret) = Repeats
    /\ call_arg = DragWithPath(<<100, 100>>, <<>>, <<<<10, 20>>, <<>>, <<700, 800>>>>)
    /\ call_ret[1] = OneSwipe(<<10, 20>>, <<700, 800>>)

TraceInv ==
    \A k \in DOMAIN web_events :
        /\ web_events[k].cmd \in {"click", "double_click", "end_test"}
        /\ \A j \in DOMAIN web_events :
              j < k => /\ web_events[j].index <= web_events[k].index
                       /\ web_events[j].substep <= web_events[k].substep
        /\ web_events[k].cmd = "end_test" =>
              \A j \in DOMAIN web_events :
                 j > k => web_events[j].substep > web_events[k].substep

TraceStep ==
    /\ ActionNext =>
          LET action == Head(items).action
          IN  IF ~GuardNext /\ action.type \in {"click", "double_click"} /\ action.xy # <<>>
              THEN web_events' = Append(web_events,
                                        WebEvent(global_turn_index, sub_idx,
                                                 action.type, action.xy))
              ELSE web_events' = web_events
    /\ \A i \in DOMAIN io' :
          io'[i].op = "tap" =>
             \E j \in 1..(i - 1) :
                io'[j].op = "screenshot_with_marker" /\ io'[j].xy = io'[i].xy
    /\ Len(web_events') <= Len(web_events) + 1
    /\ Len(web_events') >= Len(web_events)

KeptUpTo(resp, i) == Cardinality({j \in 1..i : Yields(resp[j])})

\* item it is the item of block b: of the same kind, with the flag of an
\* end_test call, with the action of the repertoire whose call b is
ItemOf(it, b) ==
    IF b.kind = "text" THEN it.type = "reasoning"
    ELSE IF b.kind = "end_test" THEN it.type = "end_test" /\ it.success = b.success
    ELSE /\ b.kind = "computer"
         /\ it.type = "computer_action"
         /\ it.action \in repertoire
         /\ b.payload = (IF provider = "claude" THEN ClaudeInput(it.action) ELSE it.action)

\* its are the items of the blocks of resp that yield one, in their order
InOrder(its, resp) ==
    /\ Len(its) = KeptUpTo(resp, Len(resp))
    /\ \A i \in DOMAIN resp : Yields(resp[i]) => ItemOf(its[KeptUpTo(resp, i)], resp[i])

\* the position of the first end_test call with success true (0: there is none)
FirstEnd(resp) ==
    LET ends == {i \in DOMAIN resp : resp[i].kind = "end_test" /\ resp[i].success}
    IN  IF ends = {} THEN 0 ELSE CHOOSE i \in ends : \A j \in ends : i <= j

ActionsBefore(resp, n) == Cardinality({j \in 1..(n - 1) : resp[j].kind = "computer"})

\* once a turn has ended the sub-goal, the actions executed in it are those
\* before the end_test item and the items after it are still unprocessed
OrderInv ==
    finished =>
        LET n == FirstEnd(raw_response)
        IN  /\ n > 0
            /\ actions_this_turn = ActionsBefore(raw_response, n)
            /\ InOrder(items, SubSeq(raw_response, n + 1, Len(raw_response)))

\* a step that receives a response turns all of it into items in order; a
\* step of the item loop processes the first item left, on the device
\* exactly when it is an action; a step after the end does nothing
OrderStep ==
    /\ (pc = "turn" /\ pc' = "items" => InOrder(items', raw_response'))
    /\ (pc = "items" /\ ~finished /\ items # <<>> =>
            /\ items' \in {items, Tail(items)}
            /\ (items' = items => pc' = "except")
            /\ (\E i \in DOMAIN io' : IsDeviceAction(io'[i]))
                   <=> Head(items).type = "computer_action"
            /\ Head(items).type = "computer_action" =>
                   \E i \in DOMAIN io' : io'[i].op = "tap" /\ io'[i].xy = Head(items).action.xy)
    /\ (pc = "items" /\ finished =>
            /\ items' = items
            /\ \A i \in DOMAIN io' : ~IsDeviceAction(io'[i]))

\* C30: both adapters return the items of a turn in the order of the
\* response's blocks, dropping unknown blocks and empty texts without
\* reordering, and the loop processes them in that order: of the items
\* [action A, EndTest(true), action B], A is executed before the sub-goal
\* ends and B never is.
C30_ItemsInOrder == []OrderInv /\ [][OrderStep]_vars

\* the turn [A, EndTest(true), B] has ended the sub-goal: A was executed, B
\* is left unprocessed and the reports are written
C30_Witness ==
    /\ reports_written
    /\ finished
    /\ Len(raw_response) = 3
    /\ raw_response[1].kind = "computer"
    /\ raw_response[2].kind = "end_test" /\ raw_response[2].success
    /\ raw_response[3].kind = "computer"
    /\ actions_this_turn = 1
    /\ Len(items) = 1 /\ items[1].type = "computer_action"

\* ---- C31
\* the sum of the turns of the recorded sub-goal results
RECURSIVE TurnSum(_)
TurnSum(results) ==
    IF results = <<>> THEN 0 ELSE Head(results).turns + TurnSum(Tail(results))

\* within a sub-goal the index is the recorded turns plus the sub-goal's
\* own; between sub-goals and at the end of the loop it is the recorded
\* turns; the summary the loop's end has filled in carries that sum
TurnIndexInv ==
    /\ pc \in {"turn", "items"} =>
           global_turn_index = TurnSum(substep_results) + turns_this_sub
    /\ pc \in {"sub_begin", "loop_end"} => global_turn_index = TurnSum(substep_results)
    /\ summary.substeps # <<>> =>
           /\ summary.executed = TurnSum(summary.substeps)
           /\ summary.executed = global_turn_index

\* the index moves by one in the steps that call create_turn, and in no other
TurnIndexStep ==
    IF \E i \in DOMAIN io' : io'[i].op = "create_turn"
    THEN global_turn_index' = global_turn_index + 1
    ELSE global_turn_index' = global_turn_index

\* C31: the global turn index increases by exactly one for every
\* create_turn call, is never reset between sub-goals and always equals the
\* sum of the per-sub-goal turn counts so far; when the loop ends without an
\* exception summary.executed is the sum of the turns of the sub-goal results.
C31_TurnIndex == []TurnIndexInv /\ [][TurnIndexStep]_vars

\* two sub-goals of two turns and one turn have been summed up
C31_Witness ==
    /\ reports_written
    /\ Len(summary.substeps) = 2
    /\ summary.substeps[1].turns = 2
    /\ summary.substeps[2].turns = 1
    /\ summary.executed = 3

\* ---- C32
\* the turns started are within the budget of all the sub-goals
TurnsBounded == global_turn_index <= Len(steps_spec) * MAX_AGENT_STEPS

\* the cleanup has run and the reports are written
CleanedUp == pc = "done" /\ reports_written /\ recorder = "stopped" /\ logcat_proc # "running"

\* C32: when every model call and every device call returns or raises, the
\* run makes at most (number of sub-goals) x MAX_AGENT_STEPS create_turn
\* calls and eventually reaches the cleanup and the writing of the summary,
\* whatever items the model returns.
C32_Terminates == []TurnsBounded /\ <>[]CleanedUp

\* a run that used its whole budget on both sub-goals' worth of turns has
\* ended
C32_Witness ==
    /\ CleanedUp
    /\ Len(steps_spec) = 2
    /\ global_turn_index = Len(steps_spec) * MAX_AGENT_STEPS

\* ---- C33
\* the state just after a create_turn call: input_messages is the list that
\* was passed
TurnRequested == pc \in {"items", "except"} /\ \E i \in DOMAIN io : io[i].op = "create_turn"

\* C33: at every create_turn call the message list has exactly two entries:
\* the system message, the same for every turn, and one user message with
\* the sub-goal's context text and the most recent screenshot; no earlier
\* user message or model output is in it, and the stateless backend is sent
\* that list and nothing else.
C33_TwoMessages ==
    TurnRequested =>
        /\ Len(input_messages) = 2
        /\ input_messages[1] = format_system_message(SYSTEM_PROMPT)
        /\ input_messages[2].role = "user"
        /\ input_messages[2].kind = "context"
        /\ input_messages[2].text = steps_spec[sub_idx]
        /\ input_messages[2].sub = sub_idx
        /\ input_messages[2].fresh
        /\ provider = "openai" => request = input_messages

\* the stateless backend is called for the second turn of the second
\* sub-goal, after a turn that executed an action
C33_Witness ==
    /\ TurnRequested
    /\ provider = "openai"
    /\ sub_idx = 2
    /\ turns_this_sub = 2
    /\ input_messages[2].note = "State updated after actions"

\* ---- C34
\* user message u answers assistant message a: it holds one tool_result for
\* each tool_use of a, with its id, and nothing else; when a has no
\* tool_use it is the loop's user message
Answers(u, a) ==
    IF a.ids # <<>>
    THEN /\ u.kind = "tool_results"
         /\ Len(u.ids) = Len(a.ids)
         /\ \A i \in DOMAIN a.ids : Cardinality({j \in DOMAIN u.ids : u.ids[j] = a.ids[i]}) = 1
    ELSE u.kind = "context" /\ u.ids = <<>>

\* history h starts with a user message, alternates user and assistant
\* messages, and each assistant message is answered by the next message
WellFormed(h) ==
    /\ \A i \in DOMAIN h : h[i].role = (IF i % 2 = 1 THEN "user" ELSE "assistant")
    /\ h # <<>> => h[1].kind = "context"
    /\ \A i \in DOMAIN h : (i % 2 = 0 /\ i < Len(h)) => Answers(h[i + 1], h[i])

\* what is sent after a successful call is the history so far and one user
\* message more
HistoryInv ==
    /\ WellFormed(c_history)
    /\ WellFormed(request)
    /\ c_history # <<>> => Stale(request) = Stale(SubSeq(c_history, 1, Len(request)))
    /\ request # <<>> => request[Len(request)].role = "user"

IsPrefix(h, g) == Len(h) <= Len(g) /\ SubSeq(g, 1, Len(h)) = h

\* the messages of the history stay what they are and where they are
HistoryStep ==
    /\ IsPrefix(Stale(c_history), Stale(c_history'))
    /\ IsPrefix(Stale(request), Stale(request'))

\* C34: in the Claude adapter, over any sequence of successful create_turn
\* calls, the history sent starts with a user message and strictly
\* alternates user and assistant messages, is append-only within a sub-goal,
\* and every tool_use of an assistant message is answered by exactly one
\* tool_result with its id in the next user message, which holds nothing
\* but those tool results.
C34_History == []HistoryInv /\ [][HistoryStep]_vars

\* the second call has sent the results of the two tool calls of the first
\* response, and its own response is in the history
C34_Witness ==
    /\ Len(c_history) = 4
    /\ Len(request) = 3
    /\ Len(c_history[2].ids) = 2
    /\ c_history[3].ids = c_history[2].ids
    /\ c_history[3].kind = "tool_results"

\* ---- C35
\* the step that has just ended installed the APK
InstalledNow == \E i \in DOMAIN io : io[i].op = "install_apk" /\ io[i].ok

\* C35: when the run has installed the APK and uninstall_after is true, the
\* package is uninstalled before run_agent returns, also when prepare_app
\* fails after the install: the step that installs and returns uninstalls.
C35_UninstalledOnExit ==
    (pc = "done" /\ UninstallAfter /\ InstalledNow) =>
        \E i, j \in DOMAIN io :
            /\ i < j
            /\ io[i].op = "install_apk"
            /\ io[j].op = "uninstall"

\* ---- C36
\* C36: in the deterministic runner a failure after the spec was validated
\* (connecting, preparing the app, executing a step) is recorded in
\* summary.errors with ok false and executed the number of steps completed;
\* the teardown and the summary writing take place and main returns 1.
C36_FailureRecorded ==
    (pc = "done" /\ exc # "") =>
        /\ summary.errors = <<exc>>
        /\ ~summary.ok
        /\ summary.executed = step_i
        /\ reports_written
        /\ ret = "1"

\* ---- C37
\* C37: on every exit path of the agent loop, the one through the except
\* clause included, summary.executed is the number of model turns started
\* in the run and the summary carries the results of the sub-goals
\* completed so far.
C37_SummaryOnEveryExit ==
    (pc = "done" /\ reports_written) =>
        /\ summary.executed = global_turn_index
        /\ summary.substeps = substep_results

\* ---- C38
\* C38: every click or double_click event of the trace references a marker
\* screenshot file of its own: no two events reference the same image file,
\* also when several clicks are executed within one turn.
C38_OwnImage ==
    \A i, j \in DOMAIN web_events :
        i # j => web_events[i].image # web_events[j].image

\* ---- C39
\* the action the loop is at ends a streak of identical actions that the
\* guard answers: the 11th, the 21st, ... of the streak
StreakFull ==
    /\ ActionNext
    /\ Head(items).action = last_sig
    /\ streak > 0
    /\ streak % RepeatThreshold = 0

NoDeviceAction(calls) == \A i \in DOMAIN calls : ~IsDeviceAction(calls[i])

\* an action without device effect is counted as executed and joins the
\* streak; the action that fills the streak is answered by BACK alone and
\* is not counted; the next user message says whether the turn counted any
NoopStep ==
    /\ StreakFull =>
          /\ \E i \in DOMAIN io' :
                /\ io'[i].op = "keyevent" /\ io'[i].key = ToString(KEYCODE_BACK)
                /\ NoDeviceAction(SubSeq(io', 1, i - 1))
                /\ NoDeviceAction(SubSeq(io', i + 1, Len(io')))
          /\ UNCHANGED <<executed_any, actions_this_turn, last_sig>>
          /\ streak' = streak + 1
    /\ (ActionNext /\ ~StreakFull) =>
          /\ NoDeviceAction(io')
          /\ executed_any'
          /\ actions_this_turn' = actions_this_turn + 1
          /\ streak' = IF Head(items).action = last_sig THEN streak + 1 ELSE 1
    /\ (pc = "items" /\ pc' = "turn" /\ ~finished) =>
          input_messages'[2].note = (IF executed_any THEN "State updated after actions"
                                     ELSE "No actions produced")

\* Claude's adapter turns the actions it does not know into the screenshot
\* action, whose signature is the same every time
NoopInv ==
    \A inp \in {ClaudeInput(ScreenshotA), ClaudeInput(HoverA),
                 Input("mouse_move", <<100, 100>>, <<>>, "", "", <<>>)} :
        /\ _normalize_action(inp) = ScreenshotA
        /\ map_computer_action(_normalize_action(inp)).calls = <<>>

====
